---- MODULE Spec2Model ----
(***************************************************************************)
(* A model of the blog aggregation pipeline of hello-go: the four source   *)
(* adapters (Toss, Daangn, Naver D2, Danmin), the Lambda handler that runs *)
(* them concurrently and merges, filters, deduplicates and sorts their     *)
(* posts, TossCrawler.Crawl's bounded page fan-out, and                    *)
(* CrawlerManager.CrawlAll with its TechFilter.                            *)
(*                                                                         *)
(* Strings the code computes on (titles, URLs, summaries, categories,      *)
(* date texts) are sequences of Unicode code points: 97 is "a", 32 a       *)
(* space, 44060 48156 the two syllables of the Korean word for             *)
(* "development".  Strings the code only copies and compares (source and   *)
(* author names, image URLs) are TLA+ strings, transliterated.  Instants   *)
(* are seconds since the Unix epoch, UTC.                                  *)
(***************************************************************************)
EXTENDS Integers, Sequences, FiniteSets, TLC

VARIABLES
    entry,        \* which program runs: "handler", "toss" or "crawlall"
    site,         \* per adapter, the environment: "up" or "down"
    \* ---- handler (src/cmd/main.go) ----
    crawler,      \* per adapter goroutine: "running" or "done"
    crawlRes,     \* per adapter: what its Crawl() ended with
    resultChan,   \* buffered channel of crawlerResult, FIFO
    chanClosed,   \* close(resultChan) has run
    allPosts,     \* handler's allPosts
    uniquePosts,  \* handler's uniquePosts
    blogStats,    \* source -> count handed to generateHTML
    rendered,     \* data.Posts handed to the template
    logs,         \* the handler's log lines about adapters, in order
    pc,           \* the handler's position
    \* ---- TossCrawler.Crawl (src/internal/crawlers/manager.go) ----
    pageKind,     \* per page, the environment: "err", "empty" or "posts"
    tpc,          \* Crawl's own position
    nextPage,     \* the spawn loop's page
    worker,       \* per page goroutine: "none", "acquire", "fetch", "done"
    semaphore,    \* number of tokens held in the semaphore channel
    pageChan,     \* Crawl's resultChan: FIFO of pageResult
    pageClosed,   \* close(resultChan) has run
    pageResults,  \* map page -> posts, as a function on the kept pages
    tossPosts,    \* Crawl's allPosts
    \* ---- CrawlerManager.CrawlAll (src/internal/crawlers/manager.go) ----
    mpc,          \* per crawler goroutine position
    mRes,         \* per crawler: what its Crawl() returned
    mFiltered,    \* per crawler: filteredPosts
    mu,           \* holder of the mutex, or "free"
    mAllPosts,    \* CrawlAll's allPosts
    mReturned,    \* CrawlAll: "waiting", "returned" or "crashed"
    \* ---- one function called on its own ----
    call,         \* the function called and its arguments
    ret           \* the values it has returned so far, in order

hvars == <<crawler, crawlRes, resultChan, chanClosed, allPosts, uniquePosts,
           blogStats, rendered, logs, pc>>
tvars == <<pageKind, tpc, nextPage, worker, semaphore, pageChan, pageClosed,
           pageResults, tossPosts>>
mvars == <<mpc, mRes, mFiltered, mu, mAllPosts, mReturned>>
uvars == <<call, ret>>
vars  == <<entry, site, hvars, tvars, mvars, uvars>>

-----------------------------------------------------------------------------
(* Generic helpers *)

Range(s) == {s[i] : i \in 1..Len(s)}

SeqsUpTo(S, n) == UNION {[1..k -> S] : k \in 0..n}

RECURSIVE Concat(_)
Concat(ss) == IF ss = <<>> THEN <<>> ELSE Head(ss) \o Concat(Tail(ss))

RECURSIVE Perms(_)
\* all orderings of a finite set, as sequences
Perms(S) ==
    IF S = {} THEN {<<>>}
    ELSE UNION {{<<x>> \o p : p \in Perms(S \ {x})} : x \in S}

-----------------------------------------------------------------------------
(* Strings: package strings, on code points *)

\* unicode.IsSpace, on the Latin-1 range
IsSpace(c) == c \in {9, 10, 11, 12, 13, 32, 133, 160}

RECURSIVE TrimLeft(_)
TrimLeft(s) == IF s # <<>> /\ IsSpace(Head(s)) THEN TrimLeft(Tail(s)) ELSE s

RECURSIVE TrimRight(_)
TrimRight(s) ==
    IF s # <<>> /\ IsSpace(s[Len(s)]) THEN TrimRight(SubSeq(s, 1, Len(s) - 1)) ELSE s

\* strings.TrimSpace
TrimSpace(s) == TrimRight(TrimLeft(s))

\* unicode.ToLower on ASCII; the Hangul syllables have no case
LowerRune(c) == IF c \in 65..90 THEN c + 32 ELSE c

\* strings.ToLower
ToLower(s) == [i \in 1..Len(s) |-> LowerRune(s[i])]

\* strings.HasPrefix
HasPrefix(s, p) == Len(p) <= Len(s) /\ SubSeq(s, 1, Len(p)) = p

\* strings.Contains
Contains(s, sub) ==
    \E i \in 0..(Len(s) - Len(sub)) : SubSeq(s, i + 1, i + Len(sub)) = sub

RECURSIVE ReplaceAll(_, _, _)
\* strings.ReplaceAll, for a non-empty old
ReplaceAll(s, old, new) ==
    IF ~Contains(s, old) THEN s
    ELSE LET At(j) == SubSeq(s, j, j + Len(old) - 1) = old
             i == CHOOSE j \in 1..(Len(s) - Len(old) + 1) :
                      At(j) /\ \A k \in 1..(j - 1) : ~At(k)
         IN  SubSeq(s, 1, i - 1) \o new
                 \o ReplaceAll(SubSeq(s, i + Len(old), Len(s)), old, new)

-----------------------------------------------------------------------------
(* Time: package time *)

\* days from 1970-01-01 to the civil date y-m-d (proleptic Gregorian)
DaysFromCivil(y, m, d) ==
    LET yy  == IF m <= 2 THEN y - 1 ELSE y
        era == yy \div 400
        yoe == yy - era * 400
        mp  == IF m > 2 THEN m - 3 ELSE m + 9
        doy == (153 * mp + 2) \div 5 + d - 1
        doe == yoe * 365 + yoe \div 4 - yoe \div 100 + doy
    IN  era * 146097 + doe - 719468

IsDigit(c) == c \in 48..57
Digit(c) == c - 48
Num2(s, i) == Digit(s[i]) * 10 + Digit(s[i + 1])
Num4(s, i) == Num2(s, i) * 100 + Num2(s, i + 2)

\* does s carry "YYYY-MM-DD" at its first ten places
IsDateText(s) ==
    /\ Len(s) >= 10
    /\ s[5] = 45 /\ s[8] = 45
    /\ \A i \in {1, 2, 3, 4, 6, 7, 9, 10} : IsDigit(s[i])
    /\ Num2(s, 6) \in 1..12 /\ Num2(s, 9) \in 1..31

DateSeconds(s) == DaysFromCivil(Num4(s, 1), Num2(s, 6), Num2(s, 9)) * 86400

\* time.Parse("2006-01-02", s): [ok, t]
ParseDateLayout(s) ==
    IF Len(s) = 10 /\ IsDateText(s)
    THEN [ok |-> TRUE, t |-> DateSeconds(s)]
    ELSE [ok |-> FALSE, t |-> 0]

\* time.Parse("2006-01-02T15:04:05Z", s): [ok, t]
ParseZuluLayout(s) ==
    IF /\ Len(s) = 20 /\ IsDateText(s)
       /\ s[11] = 84 /\ s[14] = 58 /\ s[17] = 58 /\ s[20] = 90
       /\ \A i \in {12, 13, 15, 16, 18, 19} : IsDigit(s[i])
       /\ Num2(s, 12) \in 0..23 /\ Num2(s, 15) \in 0..59 /\ Num2(s, 18) \in 0..59
    THEN [ok |-> TRUE,
          t  |-> DateSeconds(s) + Num2(s, 12) * 3600 + Num2(s, 15) * 60 + Num2(s, 18)]
    ELSE [ok |-> FALSE, t |-> 0]

\* const FILTER_DATE = "2025-01-01"
FILTER_DATE == <<50, 48, 50, 53, 45, 48, 49, 45, 48, 49>>

\* time.Now(): the instant of the run, 2026-01-01T00:00:00Z
Now == DaysFromCivil(2026, 1, 1) * 86400

\* time.Time.After, Before, Equal
After(t, u)  == t > u
Before(t, u) == t < u
Equal(t, u)  == t = u

-----------------------------------------------------------------------------
(* models.BlogPost *)

BlogPost(title, url, author, publishedAt, summary, source, category, image) ==
    [title |-> title, url |-> url, author |-> author, publishedAt |-> publishedAt,
     summary |-> summary, source |-> source, category |-> category, image |-> image]

\* what a Crawl() ends with: a post list and nil, an error, or a panic
Ok(posts) == [kind |-> "ok", posts |-> posts]
Err       == [kind |-> "err", posts |-> <<>>]
Panic     == [kind |-> "panic", posts |-> <<>>]

-----------------------------------------------------------------------------
(* sort.Slice(posts, func(i, j) { return posts[i].PublishedAt.After(posts[j].PublishedAt) }) *)

MaxTime(p, I) == CHOOSE t \in {p[i].publishedAt : i \in I} :
                     \A i \in I : ~After(p[i].publishedAt, t)

RECURSIVE SortedOrders(_, _)
\* the orderings of the indices I of p in which no later element is After an
\* earlier one
SortedOrders(p, I) ==
    IF I = {} THEN {<<>>}
    ELSE LET top == {i \in I : Equal(p[i].publishedAt, MaxTime(p, I))}
         IN  UNION {{<<i>> \o r : r \in SortedOrders(p, I \ {i})} : i \in top}

\* sort.Slice sorts by the less function and documents no stability: every
\* ordering of the elements that is sorted by publishedAt descending is a
\* possible result (pdqsort; the short lists here stand for the long lists
\* of a run, where elements with equal keys do get reordered)
SortSliceNewestFirst(p) ==
    {[k \in 1..Len(p) |-> p[o[k]]] : o \in SortedOrders(p, 1..Len(p))}

-----------------------------------------------------------------------------
(* TossCrawler: the embedded-state items of a page *)

TossArticlePrefix ==
    <<104, 116, 116, 112, 115, 58, 47, 47, 116, 111, 115, 115, 46, 116, 101, 99, 104,
      47, 97, 114, 116, 105, 99, 108, 101, 47>>   \* "https://toss.tech/article/"

CatDev    == <<44060, 48156>>                       \* "gaebal" (development)
CatDataML == <<45936, 51060, 53552, 47, 77, 76>>    \* "deiteo/ML" (data/ML)

\* the text "YYYY-MM-DD" found by the regular expression
\* (\d{4})[-/nyeon](\d{1,2})[-/wol](\d{1,2}), for two-digit months and days
DateAt(s, i) ==
    /\ i + 9 <= Len(s)
    /\ \A k \in {0, 1, 2, 3, 5, 6, 8, 9} : IsDigit(s[i + k])
    /\ s[i + 4] \in {45, 47, 45380}
    /\ s[i + 7] \in {45, 47, 50900}

\* time.Time{}, the zero instant of January 1, year 1: it lies before every
\* instant of a run (its seconds since 1970 do not fit TLC's integers)
ZeroTime == -2147483647

\* a parseDate that returns time.Time{} when the first layouts do not parse
TossParseDateOrZero(s) ==
    IF ParseZuluLayout(s).ok THEN ParseZuluLayout(s)
    ELSE IF ParseDateLayout(s).ok THEN ParseDateLayout(s)
    ELSE [ok |-> FALSE, t |-> ZeroTime]
\* TossCrawler.parseDate: [ok, t]; t is time.Now() when nothing parses
TossParseDate(s) ==
    IF ParseZuluLayout(s).ok THEN ParseZuluLayout(s)
    ELSE IF ParseDateLayout(s).ok THEN ParseDateLayout(s)
    ELSE IF \E i \in 1..Len(s) : DateAt(s, i)
         THEN LET i == CHOOSE j \in 1..Len(s) :
                           DateAt(s, j) /\ \A k \in 1..(j - 1) : ~DateAt(s, k)
                  d == SubSeq(s, i, i + 3) \o <<45>> \o SubSeq(s, i + 5, i + 6)
                         \o <<45>> \o SubSeq(s, i + 8, i + 9)
              IN  IF ParseDateLayout(d).ok THEN ParseDateLayout(d)
                  ELSE [ok |-> FALSE, t |-> Now]
         ELSE [ok |-> FALSE, t |-> Now]

RECURSIVE TossCategory(_)
\* the first category named "gaebal" or "deiteo/ML", else "gaebal"
TossCategory(cats) ==
    IF cats = <<>> THEN CatDev
    ELSE IF Head(cats) = CatDev \/ Head(cats) = CatDataML THEN Head(cats)
         ELSE TossCategory(Tail(cats))

\* extractFromJavaScript, the body of the loop over apiResponse.Results
TossPostOf(post) ==
    BlogPost(post.title,
             TossArticlePrefix \o post.key,
             post.editor,
             IF post.publishedTime # <<>> THEN TossParseDate(post.publishedTime).t
             ELSE IF post.createdTime # <<>> THEN TossParseDate(post.createdTime).t
             ELSE Now,
             post.shortDescription,
             "Toss",
             TossCategory(post.categories),
             IF post.thumbnail # "" THEN post.thumbnail
             ELSE IF post.coverImage # "" THEN post.coverImage
             ELSE post.image)

TossPagePosts(items) == [i \in 1..Len(items) |-> TossPostOf(items[i])]

\* a fetched page: the results of the embedded state, when a script over
\* 1000 bytes carries "dehydratedState" and decodes down to the API
\* response, and what extractTitle, extractURL, extractDate and
\* extractSummary find in each element the selectors of extractFromHTML match
TossDoc(has, items, elements) ==
    [state |-> [has |-> has, items |-> items], elements |-> elements]

\* extractFromJavaScript(doc): the posts of the embedded state, none when no
\* script carries one; every path ends in return posts, nil
extractFromJavaScript(doc) ==
    [posts |-> IF doc.state.has THEN TossPagePosts(doc.state.items) ELSE <<>>,
     err |-> FALSE]

\* extractFromHTML(doc): a post of each matched element with a title and a
\* URL; return posts, nil
extractFromHTML(doc) ==
    [posts |-> SelectSeq(
         [i \in 1..Len(doc.elements) |->
             LET e == doc.elements[i]
             IN  BlogPost(e.title, e.url, "Toss", TossParseDate(e.date).t,
                          e.summary, "Toss", CatDev, "")],
         LAMBDA post : post.title # <<>> /\ post.url # <<>>),
     err |-> FALSE]

\* crawlPage, after the page was fetched and parsed: extractFromHTML is
\* called when extractFromJavaScript returned an error
crawlPage(doc) ==
    LET js == extractFromJavaScript(doc)
    IN  IF js.err
        THEN LET html == extractFromHTML(doc)
             IN  IF html.err THEN Err ELSE Ok(html.posts)
        ELSE Ok(js.posts)

\* extractImagesParallel: a post without an image gets the og:image its
\* detail page carries, when that is not empty
TossWithImages(posts, og) ==
    [i \in 1..Len(posts) |->
        IF posts[i].image = "" /\ og[i] # ""
        THEN [posts[i] EXCEPT !.image = og[i]] ELSE posts[i]]

\* the two items the site serves here
TossItemA ==
    [title |-> <<32, 97>>, key |-> <<107, 49>>, editor |-> "kim",
     publishedTime |-> <<50, 48, 50, 53, 45, 48, 49, 45, 48, 49, 84, 48, 48, 58, 48,
                         48, 58, 48, 48, 90>>,       \* "2025-01-01T00:00:00Z"
     createdTime |-> <<>>, categories |-> <<CatDataML>>,
     shortDescription |-> <<120>>, thumbnail |-> "", coverImage |-> "",
     image |-> "", og |-> "og1"]
TossItemB ==
    [title |-> <<>>, key |-> <<107, 50>>, editor |-> "",
     publishedTime |-> <<>>,
     createdTime |-> <<50, 48, 50, 53, 45, 48, 54, 45, 48, 49>>,   \* "2025-06-01"
     categories |-> <<>>,
     shortDescription |-> <<>>, thumbnail |-> "t2", coverImage |-> "",
     image |-> "", og |-> ""]
TossItems == {TossItemA, TossItemB}

\* TossCrawler.Crawl as the handler sees it: an error when page 1 cannot be
\* crawled, else the posts of the pages, with their images resolved
TossCrawl(up, items) ==
    IF ~up THEN Err
    ELSE Ok(TossWithImages(TossPagePosts(items),
                           [i \in 1..Len(items) |-> items[i].og]))

-----------------------------------------------------------------------------
(* Keyword classification: DaangnCrawler.determineCategory and             *)
(* NaverCrawler.determineCategory                                          *)

\* strings.Contains(titleLower, k) || strings.Contains(summaryLower, k), for
\* some keyword k of the group
MatchesGroup(titleLower, summaryLower, kws) ==
    \E i \in 1..Len(kws) : Contains(titleLower, kws[i]) \/ Contains(summaryLower, kws[i])

\* keyword group 1, returning "AI"
DaangnKeywords1 ==
    << <<97, 105>>,   \* "ai"
       <<47672, 49888, 47084, 45789>>,   \* "\uba38\uc2e0\ub7ec\ub2dd"
       <<108, 108, 109>>,   \* "llm"
       <<52311, 48391>>,   \* "\ucc57\ubd07"
       <<49884, 47592, 54001>>,   \* "\uc2dc\ub9e8\ud2f1"
       <<114, 97, 103>>,   \* "rag"
       <<97, 105, 32, 115, 104, 111, 119, 32, 38, 32, 116, 101, 108, 108>> >>   \* "ai show & tell"
DaangnCategory1 == <<65, 73>>

\* keyword group 2, returning "\ub370\uc774\ud130"
DaangnKeywords2 ==
    << <<45936, 51060, 53552>>,   \* "\ub370\uc774\ud130"
       <<100, 97, 116, 97, 104, 117, 98>>,   \* "datahub"
       <<97, 105, 114, 102, 108, 111, 119>>,   \* "airflow"
       <<110, 56, 110>>,   \* "n8n"
       <<100, 98, 116>>,   \* "dbt"
       <<102, 101, 97, 116, 117, 114, 101, 32, 115, 116, 111, 114, 101>>,   \* "feature store"
       <<107, 97, 114, 114, 111, 116, 109, 101, 116, 114, 105, 99, 115>> >>   \* "karrotmetrics"
DaangnCategory2 == <<45936, 51060, 53552>>

\* keyword group 3, returning "\uac80\uc0c9"
DaangnKeywords3 ==
    << <<44160, 49353>>,   \* "\uac80\uc0c9"
       <<115, 101, 97, 114, 99, 104>>,   \* "search"
       <<105, 110, 100, 101, 120, 105, 110, 103>>,   \* "indexing"
       <<54805, 53468, 49548>>,   \* "\ud615\ud0dc\uc18c"
       <<115, 101, 111>> >>   \* "seo"
DaangnCategory3 == <<44160, 49353>>

\* keyword group 4, returning "\uc5d4\uc9c0\ub2c8\uc5b4\ub9c1"
DaangnKeywords4 ==
    << <<50640, 46356, 53552>>,   \* "\uc5d0\ub514\ud130"
       <<47196, 44613>>,   \* "\ub85c\uae45"
       <<50937, 50545>>,   \* "\uc6f9\uc571"
       <<54532, 47200, 53944, 50644, 46300>>,   \* "\ud504\ub860\ud2b8\uc5d4\ub4dc"
       <<44060, 48156>>,   \* "\uac1c\ubc1c"
       <<115, 119, 105, 102, 116>>,   \* "swift"
       <<109, 97, 99, 114, 111>>,   \* "macro"
       <<115, 116, 114, 101, 97, 109, 105, 110, 103, 32, 115, 115, 114>>,   \* "streaming ssr"
       <<48177, 50644, 46300>>,   \* "\ubc31\uc5d4\ub4dc"
       <<102, 101, 101, 100>>,   \* "feed"
       <<101, 110, 116, 105, 116, 121>>,   \* "entity"
       <<51032, 51316, 49457>>,   \* "\uc758\uc874\uc131"
       <<54532, 47196, 51229, 53944>> >>   \* "\ud504\ub85c\uc81d\ud2b8"
DaangnCategory4 == <<50644, 51648, 45768, 50612, 47553>>

\* keyword group 5, returning "IT\uc2a4\ud0c0\ud2b8\uc5c5"
DaangnKeywords5 ==
    << <<54801, 50629>>,   \* "\ud611\uc5c5"
       <<54016, 50892, 53356>>,   \* "\ud300\uc6cc\ud06c"
       <<50629, 47924>>,   \* "\uc5c5\ubb34"
       <<47532, 45908>>,   \* "\ub9ac\ub354"
       <<51064, 53552, 48624>>,   \* "\uc778\ud130\ubdf0"
       <<54532, 47196, 45909, 53944, 32, 46356, 51088, 51060, 45320>>,   \* "\ud504\ub85c\ub355\ud2b8 \ub514\uc790\uc774\ub108"
       <<49548, 44060>>,   \* "\uc18c\uac1c"
       <<51077, 49324>>,   \* "\uc785\uc0ac"
       <<50728, 48372, 46377>>,   \* "\uc628\ubcf4\ub529"
       <<109, 118, 112>>,   \* "mvp"
       <<49457, 51109>> >>   \* "\uc131\uc7a5"
DaangnCategory5 == <<73, 84, 49828, 53440, 53944, 50629>>

\* the default bucket: "\uc5d4\uc9c0\ub2c8\uc5b4\ub9c1"
DaangnDefaultCategory == <<50644, 51648, 45768, 50612, 47553>>

DaangnDetermineCategory(title, summary) ==
    LET tl == ToLower(title)
        sl == ToLower(summary)
    IN  IF MatchesGroup(tl, sl, DaangnKeywords1) THEN DaangnCategory1
        ELSE IF MatchesGroup(tl, sl, DaangnKeywords2) THEN DaangnCategory2
        ELSE IF MatchesGroup(tl, sl, DaangnKeywords3) THEN DaangnCategory3
        ELSE IF MatchesGroup(tl, sl, DaangnKeywords4) THEN DaangnCategory4
        ELSE IF MatchesGroup(tl, sl, DaangnKeywords5) THEN DaangnCategory5
        ELSE DaangnDefaultCategory

\* keyword group 1, returning "AI"
NaverKeywords1 ==
    << <<97, 105>>,   \* "ai"
       <<47672, 49888, 47084, 45789>>,   \* "\uba38\uc2e0\ub7ec\ub2dd"
       <<46373, 47084, 45789>>,   \* "\ub525\ub7ec\ub2dd"
       <<108, 108, 109>>,   \* "llm"
       <<52311, 48391>>,   \* "\ucc57\ubd07"
       <<49884, 47592, 54001>>,   \* "\uc2dc\ub9e8\ud2f1"
       <<114, 97, 103>>,   \* "rag"
       <<110, 108, 112>>,   \* "nlp"
       <<52980, 54504, 53552, 32, 48708, 51204>> >>   \* "\ucef4\ud4e8\ud130 \ube44\uc804"
NaverCategory1 == <<65, 73>>

\* keyword group 2, returning "\ub370\uc774\ud130"
NaverKeywords2 ==
    << <<45936, 51060, 53552>>,   \* "\ub370\uc774\ud130"
       <<100, 97, 116, 97>>,   \* "data"
       <<48516, 49437>>,   \* "\ubd84\uc11d"
       <<97, 110, 97, 108, 121, 116, 105, 99, 115>>,   \* "analytics"
       <<48709, 45936, 51060, 53552>>,   \* "\ube45\ub370\uc774\ud130"
       <<100, 97, 116, 97, 104, 117, 98>>,   \* "datahub"
       <<97, 105, 114, 102, 108, 111, 119>> >>   \* "airflow"
NaverCategory2 == <<45936, 51060, 53552>>

\* keyword group 3, returning "\uac80\uc0c9"
NaverKeywords3 ==
    << <<44160, 49353>>,   \* "\uac80\uc0c9"
       <<115, 101, 97, 114, 99, 104>>,   \* "search"
       <<105, 110, 100, 101, 120, 105, 110, 103>>,   \* "indexing"
       <<54805, 53468, 49548>>,   \* "\ud615\ud0dc\uc18c"
       <<115, 101, 111>>,   \* "seo"
       <<101, 108, 97, 115, 116, 105, 99, 115, 101, 97, 114, 99, 104>> >>   \* "elasticsearch"
NaverCategory3 == <<44160, 49353>>

\* keyword group 4, returning "\uc5d4\uc9c0\ub2c8\uc5b4\ub9c1"
NaverKeywords4 ==
    << <<44060, 48156>>,   \* "\uac1c\ubc1c"
       <<54532, 47196, 44536, 47000, 48141>>,   \* "\ud504\ub85c\uadf8\ub798\ubc0d"
       <<53076, 46377>>,   \* "\ucf54\ub529"
       <<54532, 47200, 53944, 50644, 46300>>,   \* "\ud504\ub860\ud2b8\uc5d4\ub4dc"
       <<48177, 50644, 46300>>,   \* "\ubc31\uc5d4\ub4dc"
       <<50937>>,   \* "\uc6f9"
       <<50545>>,   \* "\uc571"
       <<49436, 48260>>,   \* "\uc11c\ubc84"
       <<53364, 46972, 50864, 46300>>,   \* "\ud074\ub77c\uc6b0\ub4dc"
       <<100, 111, 99, 107, 101, 114>>,   \* "docker"
       <<107, 117, 98, 101, 114, 110, 101, 116, 101, 115>>,   \* "kubernetes"
       <<109, 105, 99, 114, 111, 115, 101, 114, 118, 105, 99, 101>> >>   \* "microservice"
NaverCategory4 == <<50644, 51648, 45768, 50612, 47553>>

\* keyword group 5, returning "IT\uc2a4\ud0c0\ud2b8\uc5c5"
NaverKeywords5 ==
    << <<54801, 50629>>,   \* "\ud611\uc5c5"
       <<54016, 50892, 53356>>,   \* "\ud300\uc6cc\ud06c"
       <<50629, 47924>>,   \* "\uc5c5\ubb34"
       <<47928, 54868>>,   \* "\ubb38\ud654"
       <<51312, 51649>>,   \* "\uc870\uc9c1"
       <<47532, 45908>>,   \* "\ub9ac\ub354"
       <<51064, 53552, 48624>>,   \* "\uc778\ud130\ubdf0"
       <<49548, 44060>>,   \* "\uc18c\uac1c"
       <<49457, 51109>>,   \* "\uc131\uc7a5"
       <<49828, 53440, 53944, 50629>> >>   \* "\uc2a4\ud0c0\ud2b8\uc5c5"
NaverCategory5 == <<73, 84, 49828, 53440, 53944, 50629>>

\* the default bucket: "\uc5d4\uc9c0\ub2c8\uc5b4\ub9c1"
NaverDefaultCategory == <<50644, 51648, 45768, 50612, 47553>>

\* a classifier that tests the engineering keywords first
NaverEngineeringFirst(title, summary) ==
    LET tl == ToLower(title)
        sl == ToLower(summary)
    IN  IF MatchesGroup(tl, sl, NaverKeywords4) THEN NaverCategory4
        ELSE IF MatchesGroup(tl, sl, NaverKeywords1) THEN NaverCategory1
        ELSE IF MatchesGroup(tl, sl, NaverKeywords2) THEN NaverCategory2
        ELSE IF MatchesGroup(tl, sl, NaverKeywords3) THEN NaverCategory3
        ELSE IF MatchesGroup(tl, sl, NaverKeywords5) THEN NaverCategory5
        ELSE NaverDefaultCategory
NaverDetermineCategory(title, summary) ==
    LET tl == ToLower(title)
        sl == ToLower(summary)
    IN  IF MatchesGroup(tl, sl, NaverKeywords1) THEN NaverCategory1
        ELSE IF MatchesGroup(tl, sl, NaverKeywords2) THEN NaverCategory2
        ELSE IF MatchesGroup(tl, sl, NaverKeywords3) THEN NaverCategory3
        ELSE IF MatchesGroup(tl, sl, NaverKeywords4) THEN NaverCategory4
        ELSE IF MatchesGroup(tl, sl, NaverKeywords5) THEN NaverCategory5
        ELSE NaverDefaultCategory

-----------------------------------------------------------------------------
(* An optional text: a field or a regular-expression match that may be     *)
(* absent                                                                  *)

Some(s) == [has |-> TRUE, text |-> s]
None    == [has |-> FALSE, text |-> <<>>]

-----------------------------------------------------------------------------
(* DaangnCrawler *)

CDataOpen  == <<60, 33, 91, 67, 68, 65, 84, 65, 91>>   \* "<![CDATA["
CDataClose == <<93, 93, 62>>                            \* "]]>"

StripCData(s) ==
    TrimSpace(ReplaceAll(TrimSpace(ReplaceAll(s, CDataOpen, <<>>)), CDataClose, <<>>))

\* "Daangn market tech blog post", the summary of an item without description
DaangnDefaultSummary ==
    <<45817, 44540, 47560, 53011, 32, 44592, 49696, 32, 48660, 47196, 44536, 32,
      54252, 49828, 53944>>

\* DaangnCrawler.parseRSSTime: [ok, t]; of its layouts, the feeds here use
\* "2006-01-02T15:04:05Z"
DaangnParseRSSTime(s) ==
    IF ParseZuluLayout(s).ok THEN ParseZuluLayout(s) ELSE [ok |-> FALSE, t |-> Now]

\* crawlMainRSS, the body of the loop over rss.Channel.Items: the posts (none
\* or one) an item yields
DaangnItemPosts(item) ==
    LET title   == StripCData(item.title)
        link    == TrimSpace(item.link)
        parsed  == DaangnParseRSSTime(item.pubDate)
        cleaned == StripCData(item.description)
        summary == IF cleaned = <<>> THEN DaangnDefaultSummary ELSE cleaned
        author  == IF item.author = "" THEN "daangn-team" ELSE item.author
    IN  IF title = <<>> \/ link = <<>> THEN <<>>
        ELSE <<BlogPost(title, link, author,
                        IF parsed.ok THEN parsed.t ELSE Now,
                        summary, "Daangn",
                        DaangnDetermineCategory(title, summary), item.thumb)>>

RECURSIVE DaangnCrawlMainRSS(_)
DaangnCrawlMainRSS(items) ==
    IF items = <<>> THEN <<>>
    ELSE DaangnItemPosts(Head(items)) \o DaangnCrawlMainRSS(Tail(items))

\* DaangnCrawler.Crawl: a failed feed is logged and leaves an empty list
DaangnCrawl(up, items) ==
    IF ~up THEN Ok(<<>>) ELSE Ok(DaangnCrawlMainRSS(items))

DaangnItemA ==
    [title |-> CDataOpen \o <<97>> \o CDataClose,        \* "<![CDATA[a]]>"
     link |-> <<100, 49>>,
     pubDate |-> <<50, 48, 50, 53, 45, 48, 54, 45, 48, 49, 84, 48, 48, 58, 48, 48,
                   58, 48, 48, 90>>,                     \* "2025-06-01T00:00:00Z"
     description |-> <<>>, author |-> "", thumb |-> ""]
DaangnItemB ==
    [title |-> <<98>>,
     link |-> <<100, 50>>,
     pubDate |-> <<50, 48, 50, 52, 45, 49, 50, 45, 51, 49, 84, 50, 51, 58, 53, 57,
                   58, 53, 57, 90>>,                     \* "2024-12-31T23:59:59Z"
     description |-> <<65, 73>>, author |-> "lee", thumb |-> "d2.png"]
DaangnItems == {DaangnItemA, DaangnItemB}

-----------------------------------------------------------------------------
(* NaverCrawler *)

RECURSIVE RemoveTags(_)
\* regexp `<[^>]*>` replaced by ""
RemoveTags(s) ==
    IF s = <<>> THEN <<>>
    ELSE IF Head(s) = 60 /\ \E i \in 2..Len(s) : s[i] = 62
         THEN LET close == CHOOSE i \in 2..Len(s) :
                               s[i] = 62 /\ \A k \in 2..(i - 1) : s[k] # 62
              IN  RemoveTags(SubSeq(s, close + 1, Len(s)))
         ELSE <<Head(s)>> \o RemoveTags(Tail(s))

\* the class \s of the regular expressions
IsReSpace(c) == c \in {9, 10, 12, 13, 32}

RECURSIVE CollapseSpace(_)
\* regexp `\s+` replaced by " "
CollapseSpace(s) ==
    IF s = <<>> THEN <<>>
    ELSE IF IsReSpace(Head(s))
         THEN IF Len(s) > 1 /\ IsReSpace(s[2]) THEN CollapseSpace(Tail(s))
              ELSE <<32>> \o CollapseSpace(Tail(s))
         ELSE <<Head(s)>> \o CollapseSpace(Tail(s))

\* NaverCrawler.stripHTMLTags
NaverStripHTMLTags(html) ==
    LET h1 == ReplaceAll(html, <<38, 108, 116, 59>>, <<60>>)             \* &lt;
        h2 == ReplaceAll(h1, <<38, 103, 116, 59>>, <<62>>)               \* &gt;
        h3 == ReplaceAll(h2, <<38, 97, 109, 112, 59>>, <<38>>)           \* &amp;
        h4 == ReplaceAll(h3, <<38, 110, 98, 115, 112, 59>>, <<32>>)      \* &nbsp;
        h5 == ReplaceAll(h4, <<38, 113, 117, 111, 116, 59>>, <<34>>)     \* &quot;
        h6 == ReplaceAll(h5, <<38, 35, 51, 57, 59>>, <<39>>)             \* &#39;
    IN  TrimSpace(CollapseSpace(RemoveTags(h6)))

\* the bytes of a code point in UTF-8
RuneLen(c) == IF c < 128 THEN 1 ELSE IF c < 2048 THEN 2 ELSE IF c < 65536 THEN 3 ELSE 4

RECURSIVE ByteLen(_)
\* len(s)
ByteLen(s) == IF s = <<>> THEN 0 ELSE RuneLen(Head(s)) + ByteLen(Tail(s))

RECURSIVE BytePrefix(_, _)
\* s[:n]; a code point cut by the slice leaves the invalid rest 65533
BytePrefix(s, n) ==
    IF s = <<>> \/ n <= 0 THEN <<>>
    ELSE IF RuneLen(Head(s)) <= n
         THEN <<Head(s)>> \o BytePrefix(Tail(s), n - RuneLen(Head(s)))
         ELSE <<65533>>

\* the summary limit of crawlRSS
SummaryLimit == 200

\* if len(summary) > 200 { summary = summary[:200] + "..." }
NaverTruncate(summary) ==
    IF ByteLen(summary) > SummaryLimit
    THEN BytePrefix(summary, SummaryLimit) \o <<46, 46, 46>>
    ELSE summary

\* NaverCrawler.parseAtomTime: [ok, t]; of its layouts, the feeds here use
\* "2006-01-02T15:04:05Z"
NaverParseAtomTime(s) ==
    IF ParseZuluLayout(s).ok THEN ParseZuluLayout(s) ELSE [ok |-> FALSE, t |-> Now]

\* a date taken from <published> alone
NaverPublishedOnly(e) ==
    LET pub == NaverParseAtomTime(TrimSpace(e.published.text))
    IN  IF e.published.has /\ pub.ok THEN pub.t ELSE Now
\* crawlRSS: publishedAt := time.Now(), then <published> when the entry has
\* one, else <updated> when it has one; a date that does not parse leaves
\* time.Now()
NaverPublishedAt(e) ==
    LET pub == NaverParseAtomTime(TrimSpace(e.published.text))
        upd == NaverParseAtomTime(TrimSpace(e.updated.text))
    IN  IF e.published.has THEN (IF pub.ok THEN pub.t ELSE Now)
        ELSE IF e.updated.has THEN (IF upd.ok THEN upd.t ELSE Now)
        ELSE Now

\* crawlRSS, the body of the loop over the <entry> elements
NaverPostOf(e) ==
    LET title   == IF e.title.has THEN TrimSpace(e.title.text) ELSE <<>>
        url     == IF e.href.has THEN TrimSpace(e.href.text) ELSE <<>>
        at      == NaverPublishedAt(e)
        content == IF e.content.has THEN TrimSpace(e.content.text) ELSE <<>>
        summary == NaverTruncate(NaverStripHTMLTags(content))
    IN  BlogPost(title, url, "NaverD2", at, summary, "NaverD2",
                 NaverDetermineCategory(title, summary), e.thumb)

NaverCrawlRSS(entries) == [i \in 1..Len(entries) |-> NaverPostOf(entries[i])]

NaverHost ==
    <<104, 116, 116, 112, 115, 58, 47, 47, 100, 50, 46, 110, 97, 118, 101, 114, 46,
      99, 111, 109>>                                     \* "https://d2.naver.com"
\* "Naver D2 post" and "Naver D2 tech blog post"
NaverDefaultTitle == <<45348, 51060, 48260, 32, 68, 50, 32, 54252, 49828, 53944>>
NaverDefaultSummary ==
    <<45348, 51060, 48260, 32, 68, 50, 32, 44592, 49696, 32, 48660, 47196, 44536, 32,
      54252, 49828, 53944>>

RECURSIVE NaverRelated(_, _)
\* crawlPostDetail: the posts synthesized from the related links of a page
NaverRelated(links, acc) ==
    IF links = <<>> THEN acc
    ELSE LET l     == Head(links)
             href  == IF HasPrefix(l.href, <<47>>) THEN NaverHost \o l.href ELSE l.href
             title == IF TrimSpace(l.text) = <<>> THEN NaverDefaultTitle
                      ELSE TrimSpace(l.text)
         IN  IF \E i \in 1..Len(acc) : acc[i].url = href
             THEN NaverRelated(Tail(links), acc)
             ELSE NaverRelated(Tail(links),
                      Append(acc, BlogPost(title, href, "NaverD2-team", Now,
                                           NaverDefaultSummary, "NaverD2",
                                           NaverDefaultCategory, "")))

RECURSIVE removeDuplicatesKeepLast(_, _)
\* a loop that keeps the last post of each URL
removeDuplicatesKeepLast(posts, seen) ==
    IF posts = <<>> THEN <<>>
    ELSE IF \E i \in 2..Len(posts) : posts[i].url = Head(posts).url
         THEN removeDuplicatesKeepLast(Tail(posts), seen)
         ELSE <<Head(posts)>> \o removeDuplicatesKeepLast(Tail(posts), seen)
RECURSIVE removeDuplicates(_, _)
\* NaverCrawler.removeDuplicates: the first post of each URL, in order
removeDuplicates(posts, seen) ==
    IF posts = <<>> THEN <<>>
    ELSE IF Head(posts).url \in seen THEN removeDuplicates(Tail(posts), seen)
         ELSE <<Head(posts)>> \o removeDuplicates(Tail(posts), seen \cup {Head(posts).url})

Swap(p, i, j) == [p EXCEPT ![i] = p[j], ![j] = p[i]]

RECURSIVE SortFirstPass(_, _, _)
\* the inner loop run for the first position alone
SortFirstPass(p, i, j) ==
    IF j > Len(p) THEN p
    ELSE SortFirstPass(IF Before(p[i].publishedAt, p[j].publishedAt)
                       THEN Swap(p, i, j) ELSE p, i, j + 1)
RECURSIVE SortLoop(_, _, _)
\* the two loops of sortByDate, at (i, j), 1-based
SortLoop(p, i, j) ==
    IF i > Len(p) - 1 THEN p
    ELSE IF j > Len(p) THEN SortLoop(p, i + 1, i + 2)
         ELSE SortLoop(IF Before(p[i].publishedAt, p[j].publishedAt)
                       THEN Swap(p, i, j) ELSE p, i, j + 1)

\* NaverCrawler.sortByDate: the sorted list, or a panic at posts[0] of an
\* empty list
sortByDate(posts) ==
    IF posts = <<>> THEN Panic ELSE Ok(SortLoop(posts, 1, 2))

RECURSIVE NaverDetails(_, _)
\* the loop over the first five posts: the related posts of their pages
NaverDetails(entries, i) ==
    IF i > Len(entries) \/ i > 5 THEN <<>>
    ELSE (IF NaverPostOf(entries[i]).url = <<>> THEN <<>>     \* the request fails
          ELSE NaverRelated(entries[i].related, <<>>))
         \o NaverDetails(entries, i + 1)

\* NaverCrawler.Crawl: every feed URL fails when the site is down
NaverCrawl(up, entries) ==
    LET rss == IF up THEN NaverCrawlRSS(entries) ELSE <<>>
        add == IF up THEN NaverDetails(entries, 1) ELSE <<>>
    IN  sortByDate(removeDuplicates(rss \o add, {}))

NaverEntryA ==
    [title |-> Some(<<97, 32>>),                         \* "a "
     href |-> Some(<<110, 49>>),
     published |-> Some(<<50, 48, 50, 53, 45, 48, 49, 45, 48, 49, 84, 48, 48, 58, 48,
                          48, 58, 48, 48, 90>>),         \* "2025-01-01T00:00:00Z"
     updated |-> None,
     content |-> Some(<<60, 112, 62, 65, 73, 60, 47, 112, 62>>),   \* "<p>AI</p>"
     thumb |-> "", related |-> <<>>]
NaverEntryB ==
    [title |-> None, href |-> None, published |-> None,
     updated |-> Some(<<50, 48, 50, 53, 45, 48, 54, 45, 48, 49, 84, 48, 48, 58, 48, 48,
                        58, 48, 48, 90>>),               \* "2025-06-01T00:00:00Z"
     content |-> None, thumb |-> "", related |-> <<>>]
NaverEntries == {NaverEntryA, NaverEntryB}

-----------------------------------------------------------------------------
(* DanminCrawler *)

DanminHost ==
    <<104, 116, 116, 112, 115, 58, 47, 47, 119, 119, 119, 46, 106, 101, 111, 110, 103,
      45, 109, 105, 110, 46, 99, 111, 109>>              \* "https://www.jeong-min.com"

\* "developer Danmin's tech blog post"
DanminDefaultSummary ==
    <<44060, 48156, 51088, 32, 45800, 48124, 51032, 32, 44592, 49696, 32, 48660, 47196,
      44536, 32, 54252, 49828, 53944>>

\* the menu labels crawlMainPage skips: "Dev", "Experience", "hoego",
\* "inteon-hoego", "All"
DanminCategoryNames ==
    << <<68, 101, 118>>, <<69, 120, 112, 101, 114, 105, 101, 110, 99, 101>>,
       <<54924, 44256>>, <<51064, 53556, 54924, 44256>>, <<65, 108, 108>> >>

\* strings.EqualFold, on ASCII case
EqualFold(s, t) == ToLower(s) = ToLower(t)

\* DanminCrawler.determineCategory
DanminDetermineCategory(title, summary) ==
    LET text == ToLower(title \o <<32>> \o summary)
        Has(k) == Contains(text, k)
    IN  IF \/ Has(<<114, 101, 97, 99, 116>>)                        \* react
           \/ Has(<<110, 101, 120, 116, 46, 106, 115>>)             \* next.js
           \/ Has(<<102, 114, 111, 110, 116, 101, 110, 100>>)       \* frontend
           \/ Has(<<117, 105>>)                                     \* ui
           \/ Has(<<99, 111, 109, 112, 111, 110, 101, 110, 116>>)   \* component
        THEN <<54532, 47200, 53944, 50644, 46300>>                  \* "frontend"
        ELSE IF \/ Has(<<51064, 53556>>)                            \* intern
                \/ Has(<<54924, 44256>>)                            \* retrospective
                \/ Has(<<44221, 54744>>)                            \* experience
        THEN <<44221, 54744>>                                       \* "experience"
        ELSE IF \/ Has(<<44060, 48156>>)                            \* development
                \/ Has(<<99, 111, 100, 105, 110, 103>>)             \* coding
                \/ Has(<<54532, 47196, 44536, 47000, 48141>>)       \* programming
        THEN <<44060, 48156>>                                       \* "development"
        ELSE IF \/ Has(<<99, 105>>)                                 \* ci
                \/ Has(<<99, 100>>)                                 \* cd
                \/ Has(<<100, 101, 112, 108, 111, 121>>)            \* deploy
                \/ Has(<<48176, 54252>>)                            \* deployment
        THEN <<68, 101, 118, 79, 112, 115>>                         \* "DevOps"
        ELSE <<44592, 53440>>                                       \* "etc"

\* regexp `^\d{4}\.\d{2}\.\d{2}$`
IsDottedDate(s) ==
    /\ Len(s) = 10
    /\ s[5] = 46 /\ s[8] = 46
    /\ \A i \in {1, 2, 3, 4, 6, 7, 9, 10} : IsDigit(s[i])

\* DanminCrawler.crawlPostDetail, for a page that was fetched: d is what the
\* page carries (date text, first fitting paragraph, first image)
DanminDetailPost(url, title, d) ==
    LET dateText == TrimSpace(d.dateText)
        parsed   == ParseDateLayout(ReplaceAll(dateText, <<46>>, <<45>>))
        at       == IF IsDottedDate(dateText) /\ parsed.ok THEN parsed.t ELSE Now
        summary  == IF d.summary = <<>> THEN DanminDefaultSummary ELSE d.summary
    IN  BlogPost(title, url, "Danmin", at, summary, "Danmin",
                 DanminDetermineCategory(title, summary), d.image)

\* the post crawlMainPage builds when the detail page cannot be fetched
DanminBasicPost(url, title) ==
    BlogPost(title, url, "Danmin", Now, DanminDefaultSummary, "Danmin",
             <<44060, 48156>>, "")

RECURSIVE DanminCrawlMainPage(_, _)
\* crawlMainPage, the loop over the anchors, with the posts found so far
DanminCrawlMainPage(anchors, posts) ==
    IF anchors = <<>> THEN posts
    ELSE LET a     == Head(anchors)
             url   == IF HasPrefix(a.href, <<47>>) THEN DanminHost \o a.href ELSE a.href
             title == TrimSpace(a.title.text)
             skip  == \/ ~(Len(a.href) >= 2 /\ a.href[1] = 47 /\ IsDigit(a.href[2]))
                      \/ \E i \in 1..Len(posts) : posts[i].url = url
                      \/ ~a.title.has
                      \/ title = <<>>
                      \/ \E i \in 1..Len(DanminCategoryNames) :
                             EqualFold(title, DanminCategoryNames[i])
         IN  IF skip THEN DanminCrawlMainPage(Tail(anchors), posts)
             ELSE DanminCrawlMainPage(Tail(anchors),
                      Append(posts, IF a.detail.ok
                                    THEN DanminDetailPost(url, title, a.detail)
                                    ELSE DanminBasicPost(url, title)))

\* DanminCrawler.Crawl: the results it can return. The main page failing is
\* an error; else the posts, deduplicated by URL and sorted by sort.Slice
DanminCrawl(up, anchors) ==
    IF ~up THEN {Err}
    ELSE {Ok(q) : q \in SortSliceNewestFirst(
                            removeDuplicates(DanminCrawlMainPage(anchors, <<>>), {}))}

DanminAnchorA ==
    [href |-> <<47, 49>>,                                \* "/1"
     title |-> Some(<<98>>),
     detail |-> [ok |-> TRUE,
                 dateText |-> <<50, 48, 50, 53, 46, 48, 49, 46, 48, 49>>,  \* "2025.01.01"
                 summary |-> <<>>, image |-> "m1.png"]]
DanminAnchorB ==
    [href |-> <<47, 50>>,                                \* "/2"
     title |-> Some(<<99>>),
     detail |-> [ok |-> FALSE, dateText |-> <<>>, summary |-> <<>>, image |-> ""]]
DanminAnchors == {DanminAnchorA, DanminAnchorB}

-----------------------------------------------------------------------------
(* The handler of src/cmd/main.go *)

Adapters == {"Toss", "Daangn", "Naver", "Danmin"}

\* the adapters in the order the handler starts their goroutines
SpawnOrder == <<"Toss", "Daangn", "Naver", "Danmin">>

\* the longest item list a source serves in the model
MaxItems == 1

\* the results Crawl() of adapter a can end with, the site being up or down
CrawlOutcomes(a, up) ==
    CASE a = "Toss"   -> {TossCrawl(up, s) : s \in SeqsUpTo(TossItems, MaxItems)}
      [] a = "Daangn" -> {DaangnCrawl(up, s) : s \in SeqsUpTo(DaangnItems, MaxItems)}
      [] a = "Naver"  -> {NaverCrawl(up, s) : s \in SeqsUpTo(NaverEntries, MaxItems)}
      [] a = "Danmin" -> UNION {DanminCrawl(up, s) : s \in SeqsUpTo(DanminAnchors, MaxItems)}

NotYet == [kind |-> "none", posts |-> <<>>]

\* filterTime, err := time.Parse("2006-01-02", FILTER_DATE)
filterTime == ParseDateLayout(FILTER_DATE)

\* post.PublishedAt.After(filterTime) || post.PublishedAt.Equal(filterTime)
PassesCutoffLate(post, cutoff) == After(post.publishedAt, cutoff)
PassesCutoff(post, cutoff) ==
    After(post.publishedAt, cutoff) \/ Equal(post.publishedAt, cutoff)

RECURSIVE CutoffFilter(_, _)
\* the loop building filteredPosts
CutoffFilter(posts, cutoff) ==
    IF posts = <<>> THEN <<>>
    ELSE (IF PassesCutoff(Head(posts), cutoff) THEN <<Head(posts)>> ELSE <<>>)
         \o CutoffFilter(Tail(posts), cutoff)

\* title := strings.TrimSpace(post.Title), the key of seenTitles
DedupKeyRaw(post) == post.title
DedupKey(post) == TrimSpace(post.title)

RECURSIVE DedupLoopLast(_, _)
\* a loop that lets a later post replace the one it duplicates
DedupLoopLast(posts, seenTitles) ==
    IF posts = <<>> THEN <<>>
    ELSE IF \E i \in 2..Len(posts) : DedupKey(posts[i]) = DedupKey(Head(posts))
         THEN DedupLoopLast(Tail(posts), seenTitles)
         ELSE <<Head(posts)>> \o DedupLoopLast(Tail(posts), seenTitles)

RECURSIVE DedupLoop(_, _)
DedupLoop(posts, seenTitles) ==
    IF posts = <<>> THEN <<>>
    ELSE IF DedupKey(Head(posts)) \in seenTitles
         THEN DedupLoop(Tail(posts), seenTitles)
         ELSE <<Head(posts)>>
              \o DedupLoop(Tail(posts), seenTitles \cup {DedupKey(Head(posts))})

\* the loop building uniquePosts
DedupByTitle(posts) == DedupLoop(posts, {})

\* allPosts = append(allPosts, posts...)
ReplacePosts(all, posts) == posts
AppendPosts(all, posts) == all \o posts

\* blogStats[post.Source]++ over the posts
Stats(posts) ==
    [s \in {posts[i].source : i \in 1..Len(posts)} |->
        Cardinality({i \in 1..Len(posts) : posts[i].source = s})]

\* generateHTML: posts without an image get the default image
WithDefaultImage(posts) ==
    [i \in 1..Len(posts) |->
        IF posts[i].image = "" THEN [posts[i] EXCEPT !.image = "default.svg"]
        ELSE posts[i]]

\* generateHTML's sort of the posts it is given
SortKeepOrder(posts) == {posts}
GenerateSort(posts) == SortSliceNewestFirst(posts)

Running == entry = "handler" /\ pc \notin {"crashed", "fatal", "done", "nocontent"}

\* resultChan := make(chan crawlerResult, 4)
ResultChanCap == 4

\* a goroutine that sends its result twice
SendCrawlerResultTwice(ch, a, r) ==
    ch \o << [name |-> a, posts |-> r.posts, err |-> r.kind = "err"],
             [name |-> a, posts |-> r.posts, err |-> r.kind = "err"] >>
\* resultChan <- crawlerResult{posts: posts, err: err, name: ...}
SendCrawlerResult(ch, a, r) ==
    Append(ch, [name |-> a, posts |-> r.posts, err |-> r.kind = "err"])

\* a crawler goroutine: defer wg.Done(); posts, err := c.Crawl();
\* resultChan <- crawlerResult{...}.  A panic inside Crawl is recovered
\* nowhere and ends the process.
Crawl(a) ==
    /\ Running
    /\ crawler[a] = "running"
    /\ \E r \in CrawlOutcomes(a, site[a] = "up") :
          /\ crawlRes' = [crawlRes EXCEPT ![a] = r]
          /\ IF r.kind = "panic"
             THEN /\ pc' = "crashed"
                  /\ UNCHANGED <<crawler, resultChan>>
             ELSE /\ Len(resultChan) < ResultChanCap
                  /\ resultChan' = SendCrawlerResult(resultChan, a, r)
                  /\ crawler' = [crawler EXCEPT ![a] = "done"]
                  /\ pc' = pc
    /\ UNCHANGED <<entry, site, uvars, chanClosed, allPosts, uniquePosts, blogStats,
                   rendered, logs, tvars, mvars>>

\* go func() { wg.Wait(); close(resultChan) }()
CloseResults ==
    /\ Running
    /\ ~chanClosed
    /\ \A a \in Adapters : crawler[a] = "done"
    /\ chanClosed' = TRUE
    /\ UNCHANGED <<entry, site, uvars, crawler, crawlRes, resultChan, allPosts, uniquePosts,
                   blogStats, rendered, logs, pc, tvars, mvars>>

\* for result := range resultChan { ... }, one iteration
Collect ==
    /\ Running
    /\ pc = "collect"
    /\ resultChan # <<>>
    /\ LET result == Head(resultChan)
       IN  /\ resultChan' = Tail(resultChan)
           /\ IF result.err
              THEN /\ logs' = Append(logs, [kind |-> "failed", name |-> result.name])
                   /\ allPosts' = allPosts
              ELSE /\ allPosts' = AppendPosts(allPosts, result.posts)
                   /\ logs' = Append(logs, [kind |-> "completed", name |-> result.name])
    /\ UNCHANGED <<entry, site, uvars, crawler, crawlRes, chanClosed, uniquePosts, blogStats,
                   rendered, pc, tvars, mvars>>

\* the handler from the end of the range loop to the call of generateHTML
Aggregate ==
    /\ Running
    /\ pc = "collect"
    /\ resultChan = <<>> /\ chanClosed
    /\ IF allPosts = <<>>
       THEN /\ pc' = "nocontent"
            /\ UNCHANGED <<uniquePosts, blogStats>>
       ELSE IF ~filterTime.ok
       THEN /\ pc' = "fatal"
            /\ UNCHANGED <<uniquePosts, blogStats>>
       ELSE LET unique == DedupByTitle(CutoffFilter(allPosts, filterTime.t))
            IN  /\ uniquePosts' = unique
                /\ blogStats' = Stats(unique)
                /\ pc' = "generate"
    /\ UNCHANGED <<entry, site, uvars, crawler, crawlRes, resultChan, chanClosed, allPosts,
                   rendered, logs, tvars, mvars>>

\* generateHTML(uniquePosts, blogStats): the sort in place, the default
\* images, the template; writing the file or the upload may fail, and then
\* the handler ends in log.Fatalf
GenerateHTML ==
    /\ Running
    /\ pc = "generate"
    /\ \E sorted \in GenerateSort(uniquePosts) :
          /\ uniquePosts' = WithDefaultImage(sorted)
          /\ rendered' = WithDefaultImage(sorted)
    /\ \E exported \in BOOLEAN : pc' = IF exported THEN "done" ELSE "fatal"
    /\ UNCHANGED <<entry, site, uvars, crawler, crawlRes, resultChan, chanClosed, allPosts,
                   blogStats, logs, tvars, mvars>>

NextHandler ==
    \/ \E a \in Adapters : Crawl(a)
    \/ CloseResults
    \/ Collect
    \/ Aggregate
    \/ GenerateHTML

\* what a run ends with after the range loop: the report of the posts, the
\* "no post" return, log.Fatalf, or a panic
Report(posts) == [kind |-> "ok", posts |-> posts]
NoContent     == [kind |-> "nocontent", posts |-> <<>>]
Fatal         == [kind |-> "fatal", posts |-> <<>>]

\* the handler of cmd/main.go from the end of the range loop, as a
\* function of allPosts: generateHTML logs posts[0] under len(posts) > 0
handler(posts) ==
    IF posts = <<>> THEN {NoContent}
    ELSE IF ~filterTime.ok THEN {Fatal}
    ELSE {Report(WithDefaultImage(sorted)) :
             sorted \in GenerateSort(DedupByTitle(CutoffFilter(posts, filterTime.t)))}
         \cup {Fatal}

\* generateHTML of src/tools.go: the sort, then the log line that reads
\* posts[0], the default images, the template and the file
generateHTML(posts) ==
    IF posts = <<>> THEN {Panic}
    ELSE {Report(WithDefaultImage(sorted)) : sorted \in GenerateSort(posts)} \cup {Fatal}

\* main of src/tools.go from the end of the range loop, as a function of
\* allPosts
main(posts) ==
    IF posts = <<>> THEN {NoContent}
    ELSE IF ~filterTime.ok THEN {Fatal}
    ELSE generateHTML(DedupByTitle(CutoffFilter(posts, filterTime.t)))

-----------------------------------------------------------------------------
(* TossCrawler.Crawl: page 1, then pages 2..maxPages fetched by one       *)
(* goroutine each under a semaphore                                        *)

\* maxPages := 50 in the code; the model crawls this many pages
MaxPages == 7

\* maxPages := 50: the last page the code tries
maxPages == 50

\* maxConcurrent := 5
maxConcurrent == 5

\* resultChan := make(chan pageResult, 50)
PageChanCap == 50

Pages == 2..MaxPages

\* the item page p serves, and the posts extractFromJavaScript makes of it
PageItems(p) == << [TossItemA EXCEPT !.key = <<112, 48 + p>>] >>
PagePosts(p) == TossPagePosts(PageItems(p))

\* what crawlPage(url) returns for page p: an error, no post, or the posts
\* of the page, as the site serves the page in this run
PageOutcome(p) ==
    CASE pageKind[p] = "err"   -> Err
      [] pageKind[p] = "empty" -> Ok(<<>>)
      [] pageKind[p] = "posts" -> Ok(PagePosts(p))

\* the most pages above page 1 that fail or are empty in one run
MaxBadPages == 1

PageKinds ==
    {k \in [1..MaxPages -> {"err", "empty", "posts"}] :
        Cardinality({p \in Pages : k[p] # "posts"}) <= MaxBadPages}

\* the og:image of the detail page of a post
OgImageOf(post) ==
    LET items == {PageItems(p)[1] : p \in 1..MaxPages}
    IN  IF \E it \in items : TossArticlePrefix \o it.key = post.url
        THEN (CHOOSE it \in items : TossArticlePrefix \o it.key = post.url).og
        ELSE ""

RECURSIVE AssembleEveryPage(_, _)
\* a loop that passes over a missing page and goes on
AssembleEveryPage(pr, page) ==
    IF page > MaxPages THEN <<>>
    ELSE IF page \in DOMAIN pr THEN pr[page] \o AssembleEveryPage(pr, page + 1)
         ELSE AssembleEveryPage(pr, page + 1)
RECURSIVE AssembleUntilMissing(_, _)
\* a loop that stops at any missing page, page 1 included
AssembleUntilMissing(pr, page) ==
    IF page > MaxPages THEN <<>>
    ELSE IF page \in DOMAIN pr THEN pr[page] \o AssembleUntilMissing(pr, page + 1)
         ELSE <<>>
RECURSIVE AssemblePages(_, _)
\* the loop "for page := 1; page <= maxPages; page++" over pageResults
AssemblePages(pr, page) ==
    IF page > MaxPages THEN <<>>
    ELSE IF page \in DOMAIN pr THEN pr[page] \o AssemblePages(pr, page + 1)
         ELSE IF page > 1 THEN <<>>
              ELSE AssemblePages(pr, page + 1)

InFlight == {p \in Pages : worker[p] = "fetch"}

TossRunning == entry = "toss"

\* firstPagePosts, err := t.crawlPage("https://toss.tech/?page=1")
FirstPage ==
    /\ TossRunning
    /\ tpc = "first"
    /\ LET r == PageOutcome(1)
       IN IF r.kind = "err"
          THEN /\ tpc' = "failed"
               /\ UNCHANGED pageChan
          ELSE /\ pageChan' = Append(pageChan, [page |-> 1, posts |-> r.posts, err |-> FALSE])
               /\ tpc' = "spawn"
    /\ UNCHANGED <<entry, site, uvars, hvars, pageKind, nextPage, worker, semaphore, pageClosed,
                   pageResults, tossPosts, mvars>>

\* one iteration of the loop over the pages: wg.Add(1); go func(pageNum) {...}
Spawn ==
    /\ TossRunning
    /\ tpc = "spawn"
    /\ nextPage <= MaxPages
    /\ worker' = [worker EXCEPT ![nextPage] = "acquire"]
    /\ nextPage' = nextPage + 1
    /\ UNCHANGED <<entry, site, uvars, hvars, pageKind, tpc, semaphore, pageChan, pageClosed,
                   pageResults, tossPosts, mvars>>

\* the loop ends: the closing goroutine starts and the range loop begins
StartCollect ==
    /\ TossRunning
    /\ tpc = "spawn"
    /\ nextPage > MaxPages
    /\ tpc' = "collect"
    /\ UNCHANGED <<entry, site, uvars, hvars, pageKind, nextPage, worker, semaphore, pageChan,
                   pageClosed, pageResults, tossPosts, mvars>>

\* semaphore <- struct{}{}
AcquireLoose(p) ==
    /\ worker[p] = "acquire"
    /\ semaphore' = semaphore + 1
    /\ worker' = [worker EXCEPT ![p] = "fetch"]
AcquireSlot(p) ==
    /\ worker[p] = "acquire"
    /\ semaphore < maxConcurrent
    /\ semaphore' = semaphore + 1
    /\ worker' = [worker EXCEPT ![p] = "fetch"]

Acquire(p) ==
    /\ TossRunning
    /\ AcquireSlot(p)
    /\ UNCHANGED <<entry, site, uvars, hvars, pageKind, tpc, nextPage, pageChan, pageClosed,
                   pageResults, tossPosts, mvars>>

\* a worker that returns on an error without sending
SendUnlessError(ch, p, r) ==
    IF r.kind = "err" THEN ch
    ELSE Append(ch, [page |-> p, posts |-> r.posts, err |-> FALSE])
\* resultChan <- pageResult{page: pageNum, posts: ..., err: ...}, on each of
\* the three ways out of the worker
SendResult(ch, p, r) ==
    Append(ch, [page |-> p, posts |-> r.posts, err |-> r.kind = "err"])

\* a worker that keeps its slot when it ends
ReleaseNothing(n) == n
\* defer func() { <-semaphore }()
Release(n) == n - 1

\* pagePosts, err := t.crawlPage(url); the send of the pageResult; the
\* deferred calls <-semaphore and wg.Done()
Fetch(p) ==
    /\ TossRunning
    /\ worker[p] = "fetch"
    /\ ~pageClosed
    /\ Len(pageChan) < PageChanCap
    /\ pageChan' = SendResult(pageChan, p, PageOutcome(p))
    /\ semaphore' = Release(semaphore)
    /\ worker' = [worker EXCEPT ![p] = "done"]
    /\ UNCHANGED <<entry, site, uvars, hvars, pageKind, tpc, nextPage, pageClosed,
                   pageResults, tossPosts, mvars>>

\* go func() { wg.Wait(); close(resultChan) }()
ClosePages ==
    /\ TossRunning
    /\ tpc = "collect"
    /\ ~pageClosed
    /\ \A p \in Pages : worker[p] = "done"
    /\ pageClosed' = TRUE
    /\ UNCHANGED <<entry, site, uvars, hvars, pageKind, tpc, nextPage, worker, semaphore, pageChan,
                   pageResults, tossPosts, mvars>>

\* for result := range resultChan { ... }, one iteration
ReceivePage ==
    /\ TossRunning
    /\ tpc = "collect"
    /\ pageChan # <<>>
    /\ LET result == Head(pageChan)
       IN  /\ pageChan' = Tail(pageChan)
           /\ pageResults' =
                 IF ~result.err /\ Len(result.posts) > 0
                 THEN (result.page :> result.posts) @@ pageResults
                 ELSE pageResults
    /\ UNCHANGED <<entry, site, uvars, hvars, pageKind, tpc, nextPage, worker, semaphore, pageClosed,
                   tossPosts, mvars>>

\* the range loop ends: the pages are put in order, the images resolved
Assemble ==
    /\ TossRunning
    /\ tpc = "collect"
    /\ pageChan = <<>> /\ pageClosed
    /\ LET posts == AssemblePages(pageResults, 1)
       IN  tossPosts' = TossWithImages(posts, [i \in 1..Len(posts) |-> OgImageOf(posts[i])])
    /\ tpc' = "returned"
    /\ UNCHANGED <<entry, site, uvars, hvars, pageKind, nextPage, worker, semaphore, pageChan,
                   pageClosed, pageResults, mvars>>

NextToss ==
    \/ FirstPage
    \/ Spawn
    \/ StartCollect
    \/ \E p \in Pages : Acquire(p)
    \/ \E p \in Pages : Fetch(p)
    \/ ClosePages
    \/ ReceivePage
    \/ Assemble

-----------------------------------------------------------------------------
(* filters.TechFilter *)

techKeywords ==
    << <<44060, 48156>>,   \* "\uac1c\ubc1c"
       <<54532, 47196, 44536, 47000, 48141>>,   \* "\ud504\ub85c\uadf8\ub798\ubc0d"
       <<53076, 46377>>,   \* "\ucf54\ub529"
       <<49548, 54532, 53944, 50920, 50612>>,   \* "\uc18c\ud504\ud2b8\uc6e8\uc5b4"
       <<50644, 51648, 45768, 50612, 47553>>,   \* "\uc5d4\uc9c0\ub2c8\uc5b4\ub9c1"
       <<54532, 47200, 53944, 50644, 46300>>,   \* "\ud504\ub860\ud2b8\uc5d4\ub4dc"
       <<48177, 50644, 46300>>,   \* "\ubc31\uc5d4\ub4dc"
       <<54400, 49828, 53469>>,   \* "\ud480\uc2a4\ud0dd"
       <<45936, 51060, 53552, 48288, 51060, 49828>>,   \* "\ub370\uc774\ud130\ubca0\uc774\uc2a4"
       <<65, 80, 73>>,   \* "API"
       <<53364, 46972, 50864, 46300>>,   \* "\ud074\ub77c\uc6b0\ub4dc"
       <<68, 101, 118, 79, 112, 115>>,   \* "DevOps"
       <<67, 73, 47, 67, 68>>,   \* "CI/CD"
       <<53580, 49828, 53944>>,   \* "\ud14c\uc2a4\ud2b8"
       <<47532, 54057, 53664, 47553>>,   \* "\ub9ac\ud329\ud1a0\ub9c1"
       <<50500, 53412, 53581, 52376>>,   \* "\uc544\ud0a4\ud14d\ucc98"
       <<47560, 51060, 53356, 47196, 49436, 48708, 49828>>,   \* "\ub9c8\uc774\ud06c\ub85c\uc11c\ube44\uc2a4"
       <<47784, 45768, 53552, 47553>>,   \* "\ubaa8\ub2c8\ud130\ub9c1"
       <<47196, 44613>>,   \* "\ub85c\uae45"
       <<48372, 50504>>,   \* "\ubcf4\uc548"
       <<49457, 45733>>,   \* "\uc131\ub2a5"
       <<52572, 51201, 54868>>,   \* "\ucd5c\uc801\ud654"
       <<49828, 52992, 51068, 47553>>,   \* "\uc2a4\ucf00\uc77c\ub9c1"
       <<52968, 53580, 51060, 45320>>,   \* "\ucee8\ud14c\uc774\ub108"
       <<53216, 48260, 45348, 54000, 49828>>,   \* "\ucfe0\ubc84\ub124\ud2f0\uc2a4"
       <<47672, 49888, 47084, 45789>>,   \* "\uba38\uc2e0\ub7ec\ub2dd"
       <<65, 73>>,   \* "AI"
       <<45936, 51060, 53552>>,   \* "\ub370\uc774\ud130"
       <<48516, 49437>>,   \* "\ubd84\uc11d"
       <<50508, 44256, 47532, 51608>>,   \* "\uc54c\uace0\ub9ac\uc998"
       <<51088, 47308, 44396, 51312>>,   \* "\uc790\ub8cc\uad6c\uc870"
       <<46356, 51088, 51064, 54056, 53556>>,   \* "\ub514\uc790\uc778\ud328\ud134"
       <<53364, 47536, 53076, 46300>>,   \* "\ud074\ub9b0\ucf54\ub4dc"
       <<47532, 54057, 53664, 47553>>,   \* "\ub9ac\ud329\ud1a0\ub9c1"
       <<84, 68, 68>>,   \* "TDD"
       <<66, 68, 68>>,   \* "BDD"
       <<68, 68, 68>>,   \* "DDD"
       <<83, 79, 76, 73, 68>>,   \* "SOLID"
       <<68, 82, 89>>,   \* "DRY"
       <<75, 73, 83, 83>>,   \* "KISS"
       <<82, 101, 97, 99, 116>>,   \* "React"
       <<86, 117, 101>>,   \* "Vue"
       <<65, 110, 103, 117, 108, 97, 114>>,   \* "Angular"
       <<78, 111, 100, 101, 46, 106, 115>>,   \* "Node.js"
       <<71, 111>>,   \* "Go"
       <<80, 121, 116, 104, 111, 110>>,   \* "Python"
       <<74, 97, 118, 97>>,   \* "Java"
       <<74, 97, 118, 97, 83, 99, 114, 105, 112, 116>>,   \* "JavaScript"
       <<84, 121, 112, 101, 83, 99, 114, 105, 112, 116>>,   \* "TypeScript"
       <<82, 117, 115, 116>>,   \* "Rust"
       <<75, 111, 116, 108, 105, 110>>,   \* "Kotlin"
       <<83, 119, 105, 102, 116>>,   \* "Swift"
       <<68, 111, 99, 107, 101, 114>>,   \* "Docker"
       <<65, 87, 83>>,   \* "AWS"
       <<71, 67, 80>>,   \* "GCP"
       <<65, 122, 117, 114, 101>> >>   \* "Azure"

\* daysLimit: 365
daysLimit == 365

\* a match on the title alone
isTechRelatedTitleOnly(post) ==
    \E k \in 1..Len(techKeywords) :
        Contains(ToLower(post.title), ToLower(techKeywords[k]))
\* the three loops of isTechRelated over title, category and summary
isTechRelated(post) ==
    \E f \in {post.title, post.category, post.summary} :
        \E k \in 1..Len(techKeywords) :
            Contains(ToLower(f), ToLower(techKeywords[k]))

\* a loop that stops one short of the last post it would keep
FilterAllButLast(posts) ==
    LET Keep(post) == /\ ~Before(post.publishedAt, Now - daysLimit * 86400)
                      /\ isTechRelated(post)
        kept == SelectSeq(posts, Keep)
    IN  IF kept = <<>> THEN <<>> ELSE SubSeq(kept, 1, Len(kept) - 1)
RECURSIVE Filter(_)
\* cutoffDate := time.Now().AddDate(0, 0, -f.daysLimit)
Filter(posts) ==
    IF posts = <<>> THEN <<>>
    ELSE (IF Before(Head(posts).publishedAt, Now - daysLimit * 86400) THEN <<>>
          ELSE IF isTechRelated(Head(posts)) THEN <<Head(posts)>>
          ELSE <<>>)
         \o Filter(Tail(posts))

-----------------------------------------------------------------------------
(* CrawlerManager.CrawlAll *)

\* m.crawlers: the crawlers NewCrawlerManager lists, the ones it lists in
\* comments included (CrawlAll is written for any list of BlogCrawler)
ManagerCrawlers == {"Toss", "Daangn", "Naver"}

ManagerRunning == entry = "crawlall" /\ mReturned = "waiting"

\* the crawlers of m.crawlers in this run: the others have no goroutine
Registered == {c \in ManagerCrawlers : mpc[c] # "absent"}

\* posts, err := c.Crawl(); on an error the goroutine logs and returns,
\* otherwise filteredPosts := m.filter.Filter(posts)
MCrawl(c) ==
    /\ ManagerRunning
    /\ mpc[c] = "crawl"
    /\ \E r \in CrawlOutcomes(c, site[c] = "up") :
          /\ mRes' = [mRes EXCEPT ![c] = r]
          /\ IF r.kind = "panic"
             THEN /\ mReturned' = "crashed"
                  /\ UNCHANGED <<mpc, mFiltered>>
             ELSE IF r.kind = "err"
             THEN /\ mpc' = [mpc EXCEPT ![c] = "done"]
                  /\ UNCHANGED <<mReturned, mFiltered>>
             ELSE /\ mFiltered' = [mFiltered EXCEPT ![c] = Filter(r.posts)]
                  /\ mpc' = [mpc EXCEPT ![c] = "lock"]
                  /\ UNCHANGED mReturned
    /\ UNCHANGED <<entry, site, uvars, hvars, tvars, mu, mAllPosts>>

\* a lock that is granted while another goroutine holds it
GrantedAlways(m) == TRUE
\* sync.Mutex: Lock returns only when no goroutine holds the mutex
Granted(m) == m = "free"

\* mu.Lock()
MLock(c) ==
    /\ ManagerRunning
    /\ mpc[c] = "lock"
    /\ Granted(mu)
    /\ mu' = c
    /\ mpc' = [mpc EXCEPT ![c] = "append"]
    /\ UNCHANGED <<entry, site, uvars, hvars, tvars, mRes, mFiltered, mAllPosts, mReturned>>

\* allPosts = append(allPosts, filteredPosts...)
MAppend(c) ==
    /\ ManagerRunning
    /\ mpc[c] = "append"
    /\ mAllPosts' = AppendPosts(mAllPosts, mFiltered[c])
    /\ mpc' = [mpc EXCEPT ![c] = "unlock"]
    /\ UNCHANGED <<entry, site, uvars, hvars, tvars, mRes, mFiltered, mu, mReturned>>

\* mu.Unlock(), and the deferred wg.Done()
MUnlock(c) ==
    /\ ManagerRunning
    /\ mpc[c] = "unlock"
    /\ mu' = "free"
    /\ mpc' = [mpc EXCEPT ![c] = "done"]
    /\ UNCHANGED <<entry, site, uvars, hvars, tvars, mRes, mFiltered, mAllPosts, mReturned>>

\* wg.Wait() returns; return allPosts, nil
MReturn ==
    /\ ManagerRunning
    /\ \A c \in Registered : mpc[c] = "done"
    /\ mReturned' = "returned"
    /\ UNCHANGED <<entry, site, uvars, hvars, tvars, mpc, mRes, mFiltered, mu, mAllPosts>>

NextCrawlAll ==
    \/ \E c \in ManagerCrawlers : MCrawl(c)
    \/ \E c \in ManagerCrawlers : MLock(c)
    \/ \E c \in ManagerCrawlers : MAppend(c)
    \/ \E c \in ManagerCrawlers : MUnlock(c)
    \/ MReturn

-----------------------------------------------------------------------------
(* Initial states and specifications *)

\* the handler before its goroutines run; nothing else has started
HandlerIdle ==
    /\ crawler = [a \in Adapters |-> "running"]
    /\ crawlRes = [a \in Adapters |-> NotYet]
    /\ resultChan = <<>>
    /\ chanClosed = FALSE
    /\ allPosts = <<>>
    /\ uniquePosts = <<>>
    /\ blogStats = <<>>
    /\ rendered = <<>>
    /\ logs = <<>>
    /\ pc = "collect"

\* Crawl of the Toss crawler at its first statement
TossStart ==
    /\ tpc = "first"
    /\ nextPage = 2
    /\ worker = [p \in Pages |-> "none"]
    /\ semaphore = 0
    /\ pageChan = <<>>
    /\ pageClosed = FALSE
    /\ pageResults = <<>>
    /\ tossPosts = <<>>

\* the Toss crawler of a run that is not about its pages
TossIdle ==
    /\ pageKind = [p \in 1..MaxPages |-> "posts"]
    /\ TossStart

\* no function called on its own
NoCall == [fn |-> "none"]
UnitIdle == call = NoCall /\ ret = <<>>

\* CrawlAll with its goroutines started
ManagerIdle ==
    /\ mpc = [c \in ManagerCrawlers |-> "crawl"]
    /\ mRes = [c \in ManagerCrawlers |-> NotYet]
    /\ mFiltered = [c \in ManagerCrawlers |-> <<>>]
    /\ mu = "free"
    /\ mAllPosts = <<>>
    /\ mReturned = "waiting"

Sites == [Adapters -> {"up", "down"}]

InitHandler ==
    /\ entry = "handler"
    /\ site \in Sites
    /\ HandlerIdle /\ TossIdle /\ ManagerIdle /\ UnitIdle

InitToss ==
    /\ entry = "toss"
    /\ site = [a \in Adapters |-> "up"]
    /\ pageKind \in PageKinds
    /\ HandlerIdle /\ TossStart /\ ManagerIdle /\ UnitIdle

\* m.crawlers as NewCrawlerManager builds it (the Toss crawler alone), or
\* with the crawlers it lists in comments switched on
Registrations == {{"Toss"}, ManagerCrawlers}

InitCrawlAll ==
    /\ entry = "crawlall"
    /\ site \in Sites
    /\ HandlerIdle /\ TossIdle /\ UnitIdle
    /\ \E reg \in Registrations :
          mpc = [c \in ManagerCrawlers |-> IF c \in reg THEN "crawl" ELSE "absent"]
    /\ mRes = [c \in ManagerCrawlers |-> NotYet]
    /\ mFiltered = [c \in ManagerCrawlers |-> <<>>]
    /\ mu = "free"
    /\ mAllPosts = <<>>
    /\ mReturned = "waiting"

Init == InitHandler

Next == NextHandler

\* the Lambda handler of cmd/main.go
Spec == Init /\ [][Next]_vars

\* TossCrawler.Crawl
SpecToss == InitToss /\ [][NextToss]_vars

\* TossCrawler.Crawl under a scheduler that runs a goroutine that can take
\* a step: the runtime schedules every runnable goroutine, and a fetch
\* returns (client timeout), so a step that stays possible is taken
\* The runs checked for termination are those in which every page has
\* posts, but for page 1 and page 3, whose fetch can fail.
InitTossFair ==
    /\ InitToss
    /\ \A p \in 1..MaxPages : pageKind[p] \in {"posts", "err"}
    /\ \A p \in Pages \ {3} : pageKind[p] = "posts"
SpecTossFair == InitTossFair /\ [][NextToss]_vars /\ WF_vars(NextToss)

InitAggregate == InitHandler \/ InitCrawlAll

NextAggregate == NextHandler \/ NextCrawlAll

\* the two fan-outs with a result channel: the handler's crawlers and the
\* page workers of TossCrawler.Crawl
InitChannels == InitHandler \/ InitToss
NextChannels == NextHandler \/ NextToss
SpecChannels == InitChannels /\ [][NextChannels]_vars

\* the two aggregators: the handler, and CrawlerManager.CrawlAll
SpecAggregate == InitAggregate /\ [][NextAggregate]_vars

-----------------------------------------------------------------------------
(* Properties *)

\* 2025-01-01T00:00:00Z
CutoffInstant == DaysFromCivil(2025, 1, 1) * 86400

Trimmed(post) == TrimSpace(post.title)

\* the handler has passed its filters and handed uniquePosts to generateHTML
Filtered == entry = "handler" /\ pc \in {"generate", "done", "fatal"}

\* generateHTML has sorted the posts and built the template data
Rendered == entry = "handler" /\ pc \in {"done", "fatal"}

\* the post as the template shows it
Shown(post) == WithDefaultImage(<<post>>)[1]

\* C1: every post of the output is published at or after 2025-01-01T00:00:00Z,
\* and a post published exactly at that instant is not dropped by the date
\* filter: its title is still in the output
C1_CutoffInvariant ==
    /\ \A i \in 1..Len(uniquePosts) : uniquePosts[i].publishedAt >= CutoffInstant
    /\ \A i \in 1..Len(rendered) : rendered[i].publishedAt >= CutoffInstant
    /\ Filtered =>
          \A i \in 1..Len(allPosts) :
              allPosts[i].publishedAt = CutoffInstant =>
                  \E j \in 1..Len(uniquePosts) : Trimmed(uniquePosts[j]) = Trimmed(allPosts[i])

\* C1 witness: a finished run that collected a post older than the cutoff
\* and renders a post published exactly at the cutoff
C1_Witness ==
    /\ entry = "handler" /\ pc = "done"
    /\ \E i \in 1..Len(allPosts) : allPosts[i].publishedAt < CutoffInstant
    /\ \E i \in 1..Len(rendered) : rendered[i].publishedAt = CutoffInstant

\* C2: no two posts of the output have the same title after trimming
\* surrounding whitespace
C2_UniqueTitles ==
    /\ \A i, j \in 1..Len(uniquePosts) :
          i # j => Trimmed(uniquePosts[i]) # Trimmed(uniquePosts[j])
    /\ \A i, j \in 1..Len(rendered) :
          i # j => Trimmed(rendered[i]) # Trimmed(rendered[j])

\* C2 witness: a finished run that collected two posts past the cutoff whose
\* titles differ only in surrounding whitespace, and renders two posts
C2_Witness ==
    /\ entry = "handler" /\ pc = "done"
    /\ Len(rendered) >= 2
    /\ \E i, j \in 1..Len(allPosts) :
          /\ i < j
          /\ allPosts[i].publishedAt >= CutoffInstant
          /\ allPosts[j].publishedAt >= CutoffInstant
          /\ allPosts[i].title # allPosts[j].title
          /\ Trimmed(allPosts[i]) = Trimmed(allPosts[j])

\* C3: the rendered list is ordered by publishedAt, newest first
C3_SortedNewestFirst ==
    /\ \A i, j \in 1..Len(rendered) :
          i < j => rendered[i].publishedAt >= rendered[j].publishedAt
    /\ Rendered =>
          \A i, j \in 1..Len(uniquePosts) :
              i < j => uniquePosts[i].publishedAt >= uniquePosts[j].publishedAt

\* C3 witness: a finished run that renders three posts or more, which
\* reached generateHTML with an older post ahead of a newer one
C3_Witness ==
    /\ entry = "handler" /\ pc = "done"
    /\ Len(rendered) >= 3
    /\ LET given == DedupByTitle(CutoffFilter(allPosts, CutoffInstant))
       IN  \E i, j \in 1..Len(given) :
               i < j /\ given[i].publishedAt < given[j].publishedAt

\* C4: every post of the output has a non-empty title and a non-empty url
C4_TitleAndUrlPresent ==
    /\ \A i \in 1..Len(uniquePosts) :
          uniquePosts[i].title # <<>> /\ uniquePosts[i].url # <<>>
    /\ \A i \in 1..Len(rendered) :
          rendered[i].title # <<>> /\ rendered[i].url # <<>>

\* C5: in the page fan-out of TossCrawler.Crawl at most 5 page fetches are
\* in flight at any instant
C5_InFlightBounded ==
    /\ Cardinality(InFlight) <= 5
    /\ semaphore <= 5

\* C5 witness: five page fetches are in flight and a sixth page worker waits
\* for a slot
C5_Witness ==
    /\ entry = "toss"
    /\ Cardinality(InFlight) = 5
    /\ \E p \in Pages : worker[p] = "acquire"

\* the first post of allPosts that passes the cutoff and has the title of post
FirstSeen(post) ==
    allPosts[CHOOSE k \in 1..Len(allPosts) :
        /\ allPosts[k].publishedAt >= CutoffInstant
        /\ Trimmed(allPosts[k]) = Trimmed(post)
        /\ \A m \in 1..(k - 1) :
              ~(allPosts[m].publishedAt >= CutoffInstant /\ Trimmed(allPosts[m]) = Trimmed(post))]

\* C6: of the posts that pass the cutoff, exactly one per trimmed title is
\* output, and it is the one seen first
C6_FirstSeenWins ==
    Filtered =>
        \A i \in 1..Len(allPosts) :
            allPosts[i].publishedAt >= CutoffInstant =>
                /\ Cardinality({j \in 1..Len(uniquePosts) :
                                   Trimmed(uniquePosts[j]) = Trimmed(allPosts[i])}) = 1
                /\ \E j \in 1..Len(uniquePosts) :
                      Shown(uniquePosts[j]) = Shown(FirstSeen(allPosts[i]))

\* C6 witness: a finished run that collected, past the cutoff, two different
\* posts of two sources under one trimmed title
C6_Witness ==
    /\ entry = "handler" /\ pc = "done"
    /\ \E i, j \in 1..Len(allPosts) :
          /\ i < j
          /\ allPosts[i].publishedAt >= CutoffInstant
          /\ allPosts[j].publishedAt >= CutoffInstant
          /\ Trimmed(allPosts[i]) = Trimmed(allPosts[j])
          /\ allPosts[i].source # allPosts[j].source

\* the posts as the handler hands them to generateHTML
GivenToSort == DedupByTitle(CutoffFilter(allPosts, CutoffInstant))

\* the place of a rendered post in the list handed to generateHTML
PlaceGiven(post) ==
    CHOOSE k \in 1..Len(GivenToSort) : Shown(GivenToSort[k]) = post

\* C7: the final sort is stable: rendered posts with equal publishedAt keep
\* the relative order they had before the sort
C7_StableSort ==
    Rendered =>
        \A i, j \in 1..Len(rendered) :
            (i < j /\ rendered[i].publishedAt = rendered[j].publishedAt)
                => PlaceGiven(rendered[i]) < PlaceGiven(rendered[j])

RECURSIVE PostsInOrder(_)
\* the posts of the adapters that returned posts, concatenated in the order o
PostsInOrder(o) ==
    IF o = <<>> THEN <<>>
    ELSE (IF crawlRes[Head(o)].kind = "ok" THEN crawlRes[Head(o)].posts ELSE <<>>)
         \o PostsInOrder(Tail(o))

\* the set of posts rendered when the adapters' results arrive in the order o
RenderedFor(o) ==
    Range(WithDefaultImage(DedupByTitle(CutoffFilter(PostsInOrder(o), CutoffInstant))))

\* C8: the rendered posts do not depend on the order in which the adapters
\* complete: they are the posts any arrival order of the same results gives
C8_OrderIndependent ==
    Rendered => \A o \in Perms(Adapters) : Range(rendered) = RenderedFor(o)

\* the lines the handler logged about the failure of adapter a
FailureLines(a) ==
    {k \in 1..Len(logs) : logs[k].kind = "failed" /\ logs[k].name = a}

Ended == entry = "handler" /\ pc \in {"done", "fatal", "nocontent", "crashed"}

\* C9: when every adapter fails, the run does not crash, ends in the explicit
\* no-content outcome, and logs the failure of each adapter exactly once
C9_TotalFailure ==
    (Ended /\ \A a \in Adapters : site[a] = "down") =>
        /\ pc = "nocontent"
        /\ \A a \in Adapters : Cardinality(FailureLines(a)) = 1

RECURSIVE LoggedPosts(_)
\* the posts of the adapters logged as completed, in the order of the log
LoggedPosts(lg) ==
    IF lg = <<>> THEN <<>>
    ELSE (IF Head(lg).kind = "completed" THEN crawlRes[Head(lg).name].posts ELSE <<>>)
         \o LoggedPosts(Tail(lg))

RECURSIVE FilteredInOrder(_)
FilteredInOrder(o) ==
    IF o = <<>> THEN <<>> ELSE Filter(mRes[Head(o)].posts) \o FilteredInOrder(Tail(o))

-----------------------------------------------------------------------------
(* Failure signalling of the adapters *)

\* C12: an adapter whose source cannot be fetched at all returns an error
\* from Crawl, never a nil error
C12_DownReturnsError ==
    entry = "handler" =>
        \A a \in Adapters :
            (crawlRes[a].kind # "none" /\ site[a] = "down") => crawlRes[a].kind = "err"

\* C13: no adapter's Crawl ends by a panic; it returns a post list or an error
C13_NoPanic ==
    entry = "handler" =>
        \A a \in Adapters : crawlRes[a].kind \in {"none", "ok", "err"}

-----------------------------------------------------------------------------
(* What CrawlAll hands to its caller *)

\* return allPosts, nil
CrawlAllReturn == [posts |-> mAllPosts, err |-> FALSE]

\* what CrawlAll returns when every crawler's Crawl returned an error: no
\* goroutine appends, so allPosts is still the nil slice, and the error is nil
HardFailureReturn == [posts |-> <<>>, err |-> FALSE]

\* a finished CrawlAll in which every registered crawler returned an error
\* has returned HardFailureReturn
HardFailureReturns ==
    (/\ entry = "crawlall" /\ mReturned = "returned"
     /\ \A c \in Registered : mRes[c].kind = "err") =>
        CrawlAllReturn = HardFailureReturn

\* C11: a run in which the crawlers succeed and the resulting list is empty
\* ends in an outcome that differs from the outcome of a hard failure
C11_EmptyDistinctFromFailure ==
    (/\ entry = "crawlall" /\ mReturned = "returned"
     /\ \A c \in Registered : mRes[c].kind = "ok"
     /\ mAllPosts = <<>>) =>
        CrawlAllReturn # HardFailureReturn

-----------------------------------------------------------------------------
(* The fan-out of TossCrawler.Crawl as a task runner *)

\* one step of the fan-out, seen from the page tasks and the result channel
FanOutStep ==
    /\ \A p \in Pages :
          \* the task ends by sending its one result, before the close
          /\ (worker[p] # "done" /\ worker'[p] = "done") =>
                /\ ~pageClosed /\ ~pageClosed'
                /\ Len(pageChan') = Len(pageChan) + 1
                /\ SubSeq(pageChan', 1, Len(pageChan)) = pageChan
                /\ pageChan'[Len(pageChan')].page = p
                /\ pageChan'[Len(pageChan')].err <=> (pageKind[p] = "err")
          \* a task that has ended stays ended and sends nothing more
          /\ worker[p] = "done" =>
                /\ worker'[p] = "done"
                /\ Len(pageChan') > Len(pageChan) => pageChan'[Len(pageChan')].page # p
          \* a task holding a slot can always send: the channel is open and
          \* has room, whatever the other tasks returned
          /\ worker'[p] = "fetch" => ~pageClosed' /\ Len(pageChan') < PageChanCap
          \* a task waiting for a slot waits for a task that can go on
          /\ (worker'[p] = "acquire" /\ semaphore' = maxConcurrent) =>
                \E q \in Pages : worker'[q] = "fetch"
    \* nothing is sent after the close, and the close waits for every task
    /\ pageClosed => pageClosed' /\ Len(pageChan') <= Len(pageChan)
    /\ pageClosed' => \A p \in Pages : worker'[p] = "done"
    \* a result leaves the channel only from its head, into the collector
    /\ Len(pageChan') < Len(pageChan) => tpc = "collect" /\ pageChan' = Tail(pageChan)
    \* Crawl returns with every result received
    /\ tpc' = "returned" => pageChan' = <<>> /\ pageClosed'

\* C14: every page task 2..MaxPages delivers exactly one result to the
\* collector whatever the other tasks return; a failing or empty page neither
\* cancels nor blocks another task, and nothing is sent after the close
C14_OneResultPerTask == [][FanOutStep]_vars

\* C14 witness: Crawl has returned from a run in which a page failed, and
\* the posts of a later page were delivered to the collector
C14_Witness ==
    /\ entry = "toss" /\ tpc = "returned"
    /\ \E p, q \in Pages :
          /\ pageKind[p] = "err"
          /\ q > p
          /\ q \in DOMAIN pageResults

-----------------------------------------------------------------------------
(* The pure functions, each called on its own with arguments drawn from
   small sets *)

\* titles and summaries handed to the classifiers
UnitTitles ==
    { <<120>>,                                                       \* "x"
      <<75, 117, 98, 101, 114, 110, 101, 116, 101, 115, 32, 53364, 47084, 49828,
        53552, 32, 50868, 50689, 44592>>,      \* "Kubernetes", then three Korean words
      <<65, 73, 32, 44060, 48156>>,                       \* "AI" and "development"
      <<44160, 49353, 32, 45936, 51060, 53552>>,          \* "search" and "data"
      <<54801, 50629, 32, 49436, 48260>>,                 \* "collaboration" and "server"
      <<82, 101, 97, 99, 116, 32, 85, 73>> }                         \* "React UI"
UnitSummaries ==
    { <<>>,
      <<120>>,                                                       \* "x"
      <<76, 76, 77>>,                                                \* "LLM"
      <<49457, 51109>> }                                             \* "growth"

Classifiers ==
    {"NaverCrawler.determineCategory", "DaangnCrawler.determineCategory",
     "DanminCrawler.determineCategory"}

CategoryCalls ==
    [fn : Classifiers, title : UnitTitles, summary : UnitSummaries, list : {<<>>}]

\* the date texts a source may carry
DateP == <<50, 48, 50, 53, 45, 48, 50, 45, 48, 49, 84, 48, 48, 58, 48, 48, 58, 48,
           48, 90>>                                      \* "2025-02-01T00:00:00Z"
DateU == <<50, 48, 50, 53, 45, 48, 51, 45, 48, 49, 84, 48, 48, 58, 48, 48, 58, 48,
           48, 90>>                                      \* "2025-03-01T00:00:00Z"
DateBad == <<115, 111, 111, 110>>                                    \* "soon"
DateDay == <<50, 48, 50, 53, 45, 48, 51, 45, 48, 49>>                \* "2025-03-01"
DateSlash == <<50, 48, 50, 53, 47, 48, 51, 47, 48, 49>>              \* "2025/03/01"
DateDotted == <<50, 48, 50, 53, 46, 48, 51, 46, 48, 49>>             \* "2025.03.01"

AtomDates == {None, Some(DateP), Some(DateU), Some(DateBad)}

NaverDateEntries ==
    {[NaverEntryA EXCEPT !.published = pub, !.updated = upd] :
        pub \in AtomDates, upd \in AtomDates}

TossDateItems ==
    {[TossItemA EXCEPT !.publishedTime = pub, !.createdTime = crt] :
        pub \in {<<>>, DateP, DateDay, DateSlash, DateBad},
        crt \in {<<>>, DateU, DateBad}}

DaangnDateItems ==
    {[DaangnItemA EXCEPT !.pubDate = d] : d \in {DateP, DateBad, <<>>}}

DanminDateAnchors ==
    {[DanminAnchorA EXCEPT !.detail.dateText = d] : d \in {DateDotted, DateBad, <<>>}}
        \cup {DanminAnchorB}

\* a text one character over the summary limit, and the items carrying it
LongText == [i \in 1..(SummaryLimit + 1) |-> 97]
\* a Hangul text of 67 syllables, one byte over the limit in UTF-8
LongHangul == [i \in 1..(SummaryLimit \div 3 + 1) |-> 44032]
NaverLongEntries ==
    {[NaverEntryA EXCEPT !.content = Some(LongHangul), !.published = Some(DateP)]}
TossLongItems ==
    {[TossItemA EXCEPT !.shortDescription = LongText, !.publishedTime = DateP]}
DaangnLongItems == {[DaangnItemA EXCEPT !.description = LongText, !.pubDate = DateP]}

\* an element of a page with a title, a link and a date
TossElement ==
    [title |-> <<72, 84, 77, 76>>,                      \* "HTML"
     url |-> TossArticlePrefix \o <<104, 49>>, date |-> DateP, summary |-> <<>>]

\* an element without a link
TossElementNoLink == [TossElement EXCEPT !.url = <<>>]

\* pages with the embedded state and without it, with and without elements
TossDocs ==
    {TossDoc(has, IF has THEN <<it>> ELSE <<>>, els) :
        has \in BOOLEAN, it \in TossDateItems,
        els \in {<<>>, <<TossElement>>, <<TossElementNoLink, TossElement>>}}

\* "/news/1", "/news/2", and feed entries and related links with them
News1 == <<47, 110, 101, 119, 115, 47, 49>>
News2 == <<47, 110, 101, 119, 115, 47, 50>>
NaverFeedEntry(path, title, related) ==
    [NaverEntryA EXCEPT !.href = Some(NaverHost \o path), !.title = Some(title),
                        !.published = Some(DateP), !.related = related]
NaverLink(path, text) == [href |-> path, text |-> text]

\* feeds for NaverCrawler.Crawl: one entry; two entries of one URL; an entry
\* whose page links to itself and twice to another post; two entries whose
\* pages link to each other and to one more post
NaverFeeds ==
    LET first  == <<102, 105, 114, 115, 116>>
        second == <<115, 101, 99, 111, 110, 100>>
        more   == <<109, 111, 114, 101>>
    IN  { <<NaverFeedEntry(News1, first, <<>>)>>,
          <<NaverFeedEntry(News1, first, <<>>), NaverFeedEntry(News1, second, <<>>)>>,
          <<NaverFeedEntry(News1, first,
                <<NaverLink(News1, more), NaverLink(News2, second),
                  NaverLink(News2, more)>>)>>,
          <<[NaverFeedEntry(News1, first, <<>>) EXCEPT !.published = NaverEntryA.published],
            NaverFeedEntry(News2, second, <<>>),
            [NaverFeedEntry(News2 \o <<48>>, more, <<>>) EXCEPT !.published = Some(DateU)]>>,
          <<NaverFeedEntry(News1, first, <<NaverLink(News2, more)>>),
            NaverFeedEntry(News2, second,
                <<NaverLink(News1, more), NaverLink(News2 \o <<48>>, more)>>)>> }

\* main pages for DanminCrawler.Crawl: one anchor; two anchors of one post;
\* two posts
DanminPages ==
    { <<DanminAnchorA>>,
      <<DanminAnchorA, [DanminAnchorB EXCEPT !.href = DanminAnchorA.href]>>,
      <<DanminAnchorB, DanminAnchorA>> }

\* the longest list handed to sortByDate
MaxSort == 3

\* posts of three days, and the non-empty lists of them
SortPosts ==
    {BlogPost(<<48 + d>>, <<48 + d>>, "NaverD2", Now - d * 86400, <<>>, "NaverD2",
              <<>>, "") : d \in 1..3}
SortCalls ==
    [fn : {"NaverCrawler.sortByDate"}, title : {<<>>}, summary : {<<>>},
     list : SeqsUpTo(SortPosts, MaxSort) \ {<<>>}]

PageCalls(fn, items) ==
    [fn : {fn}, title : {<<>>}, summary : {<<>>}, list : {<<it>> : it \in items}]

\* the posts handed to the filter: a keyword in the title, in the category
\* alone, in the summary alone, nowhere; at the age limit, and a second past
FilterPosts ==
    { BlogPost(<<68, 111, 99, 107, 101, 114>>, <<49>>, "", Now - 10 * 86400,
               <<>>, "Toss", <<>>, ""),                  \* title "Docker"
      BlogPost(<<120>>, <<50>>, "", Now - 10 * 86400,
               <<>>, "Toss", <<65, 73>>, ""),            \* category "AI"
      BlogPost(<<120>>, <<51>>, "", Now - 10 * 86400,
               <<97, 32, 114, 117, 115, 116, 32, 98>>, "Toss", <<>>, ""),  \* summary "a rust b"
      BlogPost(<<120>>, <<52>>, "", Now - 10 * 86400,
               <<121>>, "Toss", <<122>>, ""),            \* no keyword
      BlogPost(<<68, 111, 99, 107, 101, 114>>, <<53>>, "", Now - 365 * 86400,
               <<>>, "Toss", <<>>, ""),                  \* 365 days old
      BlogPost(<<68, 111, 99, 107, 101, 114>>, <<54>>, "", Now - 365 * 86400 - 1,
               <<>>, "Toss", <<>>, "") }                 \* a second older

\* the longest list handed to the filter
MaxList == 2

FilterCalls ==
    [fn : {"TechFilter.Filter"}, title : {<<>>}, summary : {<<>>},
     list : SeqsUpTo(FilterPosts, MaxList)]

\* posts collected from the adapters: a second before the cutoff, two days
\* before it, and at the cutoff
CollectedPosts ==
    {BlogPost(<<111, 48 + d>>, <<48 + d>>, "", filterTime.t - d, <<>>, "Daangn", <<>>, "") :
        d \in {0, 1, 2 * 86400}}
ReportCalls ==
    [fn : {"handler", "main"}, title : {<<>>}, summary : {<<>>},
     list : SeqsUpTo(CollectedPosts, MaxList) \ {<<>>}]

UnitRunning == entry = "unit"

Returns(fn, v) ==
    /\ UnitRunning
    /\ call.fn = fn
    /\ ret = <<>>
    /\ ret' = <<v>>
    /\ UNCHANGED <<entry, site, hvars, tvars, mvars, call>>

CallNaverCategory ==
    Returns("NaverCrawler.determineCategory",
            NaverDetermineCategory(call.title, call.summary))
CallDaangnCategory ==
    Returns("DaangnCrawler.determineCategory",
            DaangnDetermineCategory(call.title, call.summary))
CallDanminCategory ==
    Returns("DanminCrawler.determineCategory",
            DanminDetermineCategory(call.title, call.summary))
CallNaverCrawlRSS == Returns("NaverCrawler.crawlRSS", NaverCrawlRSS(call.list))
CallTossExtract == Returns("TossCrawler.extractFromJavaScript", TossPagePosts(call.list))
CallDaangnCrawlMainRSS ==
    Returns("DaangnCrawler.crawlMainRSS", DaangnCrawlMainRSS(call.list))
CallDanminCrawlMainPage ==
    Returns("DanminCrawler.crawlMainPage", DanminCrawlMainPage(call.list, <<>>))
CallTossCrawlPage == Returns("TossCrawler.crawlPage", crawlPage(call.list[1]))
CallHandler ==
    /\ call.fn = "handler"
    /\ \E r \in handler(call.list) : Returns("handler", r)
CallMain ==
    /\ call.fn = "main"
    /\ \E r \in main(call.list) : Returns("main", r)
CallNaverSortByDate == Returns("NaverCrawler.sortByDate", sortByDate(call.list))
CallNaverCrawl == Returns("NaverCrawler.Crawl", NaverCrawl(TRUE, call.list))
CallDanminCrawl ==
    /\ call.fn = "DanminCrawler.Crawl"
    /\ \E r \in DanminCrawl(TRUE, call.list) : Returns("DanminCrawler.Crawl", r)
CallFilter == Returns("TechFilter.Filter", Filter(call.list))

\* the filter applied to the list it returned
CallFilterAgain ==
    /\ UnitRunning
    /\ call.fn = "TechFilter.Filter"
    /\ Len(ret) = 1
    /\ ret' = Append(ret, Filter(ret[1]))
    /\ UNCHANGED <<entry, site, hvars, tvars, mvars, call>>

NextUnit ==
    \/ CallNaverCategory
    \/ CallDaangnCategory
    \/ CallDanminCategory
    \/ CallNaverCrawlRSS
    \/ CallTossExtract
    \/ CallDaangnCrawlMainRSS
    \/ CallDanminCrawlMainPage
    \/ CallTossCrawlPage
    \/ CallHandler
    \/ CallMain
    \/ CallNaverSortByDate
    \/ CallNaverCrawl
    \/ CallDanminCrawl
    \/ CallFilter
    \/ CallFilterAgain

InitUnit ==
    /\ entry = "unit"
    /\ site = [a \in Adapters |-> "up"]
    /\ HandlerIdle /\ TossIdle /\ ManagerIdle
    /\ ret = <<>>
    /\ \/ call \in CategoryCalls
       \/ call \in PageCalls("NaverCrawler.crawlRSS", NaverDateEntries \cup NaverLongEntries)
       \/ call \in PageCalls("TossCrawler.extractFromJavaScript",
                             TossDateItems \cup TossLongItems)
       \/ call \in PageCalls("DaangnCrawler.crawlMainRSS",
                             DaangnDateItems \cup DaangnLongItems)
       \/ call \in PageCalls("DanminCrawler.crawlMainPage", DanminDateAnchors)
       \/ call \in PageCalls("TossCrawler.crawlPage", TossDocs)
       \/ call \in [fn : {"NaverCrawler.Crawl"}, title : {<<>>}, summary : {<<>>},
                     list : NaverFeeds]
       \/ call \in SortCalls
       \/ call \in ReportCalls
       \/ call \in [fn : {"DanminCrawler.Crawl"}, title : {<<>>}, summary : {<<>>},
                     list : DanminPages]
       \/ call \in FilterCalls

\* the functions of the crawlers and of the filter, one call each
SpecUnit == InitUnit /\ [][NextUnit]_vars

-----------------------------------------------------------------------------
(* Dates, categories and the relevance filter *)

\* fn was called and has returned
Called(fn) == entry = "unit" /\ call.fn = fn /\ ret # <<>>

\* the instant a date text names, from the calendar: [ok, t]
SourceInstant(text) ==
    IF text = DateP THEN [ok |-> TRUE, t |-> DaysFromCivil(2025, 2, 1) * 86400]
    ELSE IF text \in {DateU, DateDay, DateSlash, DateDotted}
    THEN [ok |-> TRUE, t |-> DaysFromCivil(2025, 3, 1) * 86400]
    ELSE [ok |-> FALSE, t |-> 0]

\* the date text of the source item the call was given
SourceDate ==
    LET it == call.list[1]
    IN  CASE call.fn = "NaverCrawler.crawlRSS" ->
                 IF it.published.has THEN it.published.text
                 ELSE IF it.updated.has THEN it.updated.text ELSE <<>>
          [] call.fn = "TossCrawler.extractFromJavaScript" ->
                 IF it.publishedTime # <<>> THEN it.publishedTime ELSE it.createdTime
          [] call.fn = "DaangnCrawler.crawlMainRSS" -> it.pubDate
          [] call.fn = "DanminCrawler.crawlMainPage" ->
                 IF it.detail.ok THEN it.detail.dateText ELSE <<>>

PageFunctions ==
    {"NaverCrawler.crawlRSS", "TossCrawler.extractFromJavaScript",
     "DaangnCrawler.crawlMainRSS", "DanminCrawler.crawlMainPage"}

\* C15: every post an adapter builds has a publishedAt that is set: the
\* source's date when it parses, the current time when it is missing or does
\* not parse; the item still yields its post
C15_PublishedAtAlwaysSet ==
    \A fn \in PageFunctions :
        Called(fn) =>
            /\ Len(ret[1]) = 1
            /\ ret[1][1].publishedAt # ZeroTime
            /\ ret[1][1].publishedAt =
                  IF SourceInstant(SourceDate).ok THEN SourceInstant(SourceDate).t ELSE Now

\* C15 witness: a Toss article whose publishedTime does not parse has become
\* a post dated with the current time
C15_Witness ==
    /\ Called("TossCrawler.extractFromJavaScript")
    /\ call.list[1].publishedTime = DateBad
    /\ Len(ret[1]) = 1
    /\ ret[1][1].publishedAt = Now

\* C16: a Naver entry without <published> and with a parsable <updated> is
\* dated by <updated>; an entry with a parsable <published> is dated by it
C16_UpdatedWhenNoPublished ==
    Called("NaverCrawler.crawlRSS") =>
        LET e == call.list[1]
        IN  /\ (~e.published.has /\ e.updated.has /\ SourceInstant(e.updated.text).ok) =>
                  ret[1][1].publishedAt = SourceInstant(e.updated.text).t
            /\ (e.published.has /\ SourceInstant(e.published.text).ok) =>
                  ret[1][1].publishedAt = SourceInstant(e.published.text).t

\* C16 witness: the entry of scenario C, no <published> and <updated> of
\* 2025-03-01T00:00:00Z, has become a post of that instant
C16_Witness ==
    /\ Called("NaverCrawler.crawlRSS")
    /\ ~call.list[1].published.has
    /\ call.list[1].updated = Some(DateU)
    /\ ret[1][1].publishedAt = DaysFromCivil(2025, 3, 1) * 86400

\* kw occurs in text, letter case aside
MatchesCI(text, kw) ==
    \E i \in 1..(Len(text) - Len(kw) + 1) :
        \A j \in 1..Len(kw) : LowerRune(text[i + j - 1]) = LowerRune(kw[j])

\* the keyword groups of a classifier in the order AI, Data, Search,
\* Engineering, Startup culture, and the buckets they stand for
GroupsOf(fn) ==
    IF fn = "NaverCrawler.determineCategory"
    THEN <<NaverKeywords1, NaverKeywords2, NaverKeywords3, NaverKeywords4, NaverKeywords5>>
    ELSE <<DaangnKeywords1, DaangnKeywords2, DaangnKeywords3, DaangnKeywords4,
           DaangnKeywords5>>
BucketAI == <<65, 73>>
BucketEngineering == <<50644, 51648, 45768, 50612, 47553>>
Buckets ==
    <<BucketAI, <<45936, 51060, 53552>>, <<44160, 49353>>, BucketEngineering,
      <<73, 84, 49828, 53440, 53944, 50629>>>>

\* group i of the classifier called matches the title or the summary
GroupMatches(i) ==
    \E k \in 1..Len(GroupsOf(call.fn)[i]) :
        \/ MatchesCI(call.title, GroupsOf(call.fn)[i][k])
        \/ MatchesCI(call.summary, GroupsOf(call.fn)[i][k])

KubernetesTitle ==
    <<75, 117, 98, 101, 114, 110, 101, 116, 101, 115, 32, 53364, 47084, 49828,
      53552, 32, 50868, 50689, 44592>>

\* C17: the classifier returns the bucket of the first group, in the order
\* AI, Data, Search, Engineering, Startup culture, that matches the title or
\* the summary; the Kubernetes title of scenario D, with nothing of another
\* group about it, yields Engineering
C17_FirstGroupWins ==
    \A fn \in {"NaverCrawler.determineCategory", "DaangnCrawler.determineCategory"} :
        Called(fn) =>
            /\ \A i \in 1..5 :
                  (GroupMatches(i) /\ \A j \in 1..(i - 1) : ~GroupMatches(j)) =>
                      ret[1] = Buckets[i]
            /\ (call.title = KubernetesTitle /\ \A j \in {1, 2, 3, 5} : ~GroupMatches(j)) =>
                  ret[1] = BucketEngineering

\* C17 witness: a title with an AI keyword and an Engineering keyword has
\* been classified AI by the Naver classifier
C17_Witness ==
    /\ Called("NaverCrawler.determineCategory")
    /\ GroupMatches(1) /\ GroupMatches(4)
    /\ ret[1] = BucketAI

\* the keywords of DanminCrawler.determineCategory, all groups
DanminKeywords ==
    << <<114, 101, 97, 99, 116>>, <<110, 101, 120, 116, 46, 106, 115>>,
       <<102, 114, 111, 110, 116, 101, 110, 100>>, <<117, 105>>,
       <<99, 111, 109, 112, 111, 110, 101, 110, 116>>,
       <<51064, 53556>>, <<54924, 44256>>, <<44221, 54744>>,
       <<44060, 48156>>, <<99, 111, 100, 105, 110, 103>>,
       <<54532, 47196, 44536, 47000, 48141>>,
       <<99, 105>>, <<99, 100>>, <<100, 101, 112, 108, 111, 121>>, <<48176, 54252>> >>

\* no keyword group of the classifier called matches
NoGroupMatches ==
    IF call.fn = "DanminCrawler.determineCategory"
    THEN \A k \in 1..Len(DanminKeywords) :
             ~MatchesCI(call.title \o <<32>> \o call.summary, DanminKeywords[k])
    ELSE \A i \in 1..5 : ~GroupMatches(i)

\* C18: in each classifier (Naver, Daangn, Danmin), a title and summary that
\* no keyword group matches get the Engineering bucket
C18_DefaultIsEngineering ==
    \A fn \in Classifiers :
        (Called(fn) /\ NoGroupMatches) => ret[1] = BucketEngineering

\* a post the filter has to keep: not older than 365 days, and a keyword of
\* the list in its title, its category or its summary, letter case aside
Wanted(post) ==
    /\ post.publishedAt >= Now - 365 * 86400
    /\ \E f \in {post.title, post.category, post.summary} :
          \E k \in 1..Len(techKeywords) : MatchesCI(f, techKeywords[k])

C20_FilterIdempotent ==
    (entry = "unit" /\ call.fn = "TechFilter.Filter" /\ Len(ret) = 2) => ret[2] = ret[1]

\* C20 witness: the filter has been applied twice, and its first run kept
\* posts and dropped a post
C20_Witness ==
    /\ entry = "unit" /\ call.fn = "TechFilter.Filter" /\ Len(ret) = 2
    /\ ret[1] # <<>>
    /\ Len(ret[1]) < Len(call.list)
    /\ ret[2] = ret[1]

-----------------------------------------------------------------------------
(* Summaries *)

Ellipsis == <<46, 46, 46>>

\* C21: the summary of every post an adapter builds is bounded: at most 200
\* characters, followed by the ellipsis when the source text was longer
C21_SummaryBounded ==
    \A fn \in PageFunctions :
        Called(fn) =>
            \A i \in 1..Len(ret[1]) :
                LET summary == ret[1][i].summary
                IN  \/ Len(summary) <= 200
                    \/ /\ Len(summary) <= 200 + Len(Ellipsis)
                       /\ SubSeq(summary, Len(summary) - 2, Len(summary)) = Ellipsis

-----------------------------------------------------------------------------
(* The pages TossCrawler.Crawl assembles *)

\* page p errored or returned no post
Missing(p) == pageKind[p] # "posts"

\* the first page above page 1 that is missing, or the page after the last
FirstHole ==
    IF \E p \in Pages : Missing(p)
    THEN CHOOSE p \in Pages : Missing(p) /\ \A q \in Pages : q < p => ~Missing(q)
    ELSE MaxPages + 1

\* the posts of the pages below the first hole, in page order
PostsBelowHole ==
    Concat([p \in 1..(FirstHole - 1) |-> IF Missing(p) THEN <<>> ELSE PagePosts(p)])

UrlsOf(posts) == [i \in 1..Len(posts) |-> posts[i].url]

C29_EmptyFirstPageGoesOn ==
    (entry = "toss" /\ tpc = "returned" /\ pageKind[1] = "empty") =>
        UrlsOf(tossPosts) = UrlsOf(Concat([i \in 1..(FirstHole - 2) |-> PagePosts(i + 1)]))

\* C29 witness: Crawl has returned the posts of pages 2 and up from a run in
\* which page 1 held no post
C29_Witness ==
    /\ entry = "toss" /\ tpc = "returned" /\ pageKind[1] = "empty"
    /\ Len(tossPosts) >= 2
    /\ tossPosts[1].url = PagePosts(2)[1].url

-----------------------------------------------------------------------------
(* Result channels *)

\* the results sent so far on the handler's channel: the ones still
\* buffered, and the ones received (each is logged once)
SentByCrawlers == Len(resultChan) + Len(logs)

\* the results sent so far on the page channel: page 1's, and one by each
\* page worker that has ended
SentByPages ==
    (IF tpc \in {"first", "failed"} THEN 0 ELSE 1)
        + Cardinality({p \in Pages : worker[p] = "done"})

-----------------------------------------------------------------------------
(* The shared list of CrawlAll *)

\* the goroutines between mu.Lock() and mu.Unlock()
InCritical == {c \in ManagerCrawlers : mpc[c] \in {"append", "unlock"}}

\* the goroutines whose append has been done
Appended == {c \in ManagerCrawlers : mpc[c] \in {"unlock", "done"} /\ mRes[c].kind = "ok"}

\* how many times x occurs in the list
Count(x, list) == Cardinality({i \in 1..Len(list) : list[i] = x})

RECURSIVE CountIn(_, _)
\* how many times x occurs in the filtered lists of the crawlers of set S
CountIn(x, S) ==
    IF S = {} THEN 0
    ELSE LET c == CHOOSE d \in S : TRUE
         IN  Count(x, mFiltered[c]) + CountIn(x, S \ {c})

\* every post of the shared list or of a filtered list
AnyPost == Range(mAllPosts) \cup UNION {Range(mFiltered[c]) : c \in ManagerCrawlers}

\* C24: in CrawlAll at most one goroutine is between Lock and Unlock, and
\* it holds the mutex; the shared list holds each filtered post of each
\* crawler that succeeded and has appended exactly as often as that crawler
\* kept it, and nothing else; CrawlAll returns only after every goroutine
\* has ended, so the returned list holds exactly the filtered posts of every
\* crawler that succeeded
C24_AppendsExclusive ==
    (entry = "crawlall" /\ mReturned # "crashed") =>
        /\ Cardinality(InCritical) <= 1
        /\ \A c \in ManagerCrawlers : c \in InCritical <=> mu = c
        /\ \A c \in ManagerCrawlers :
              mRes[c].kind = "ok" => mFiltered[c] = Filter(mRes[c].posts)
        /\ \A x \in AnyPost : Count(x, mAllPosts) = CountIn(x, Appended)
        /\ mReturned = "returned" =>
              /\ \A c \in Registered : mpc[c] = "done"
              /\ Appended = {c \in Registered : mRes[c].kind = "ok"}

\* C24 witness: CrawlAll has returned the kept posts of two crawlers, those
\* of the crawler registered later first
C24_Witness ==
    /\ entry = "crawlall" /\ mReturned = "returned"
    /\ mFiltered["Toss"] # <<>> /\ mFiltered["Daangn"] # <<>>
    /\ mAllPosts = mFiltered["Daangn"] \o mFiltered["Naver"] \o mFiltered["Toss"]

-----------------------------------------------------------------------------
(* The fallback of crawlPage *)

\* C25: when no script of the page carries a decodable state payload,
\* crawlPage returns the posts extractFromHTML makes of the page
C25_FallbackWithoutState ==
    (Called("TossCrawler.crawlPage") /\ ~call.list[1].state.has) =>
        ret[1] = Ok(extractFromHTML(call.list[1]).posts)

-----------------------------------------------------------------------------
(* Duplicate URLs in NaverCrawler.Crawl and DanminCrawler.Crawl *)

\* the posts in the order Crawl discovers them: for Naver the feed's posts,
\* then the posts made of the related links of each page; for Danmin the
\* post of each anchor of the main page
Discovered ==
    IF call.fn = "NaverCrawler.Crawl"
    THEN NaverCrawlRSS(call.list)
             \o Concat([i \in 1..Len(call.list) |->
                           NaverRelated(call.list[i].related, <<>>)])
    ELSE Concat([i \in 1..Len(call.list) |->
                     DanminCrawlMainPage(<<call.list[i]>>, <<>>)])

\* C26: the list NaverCrawler.Crawl or DanminCrawler.Crawl returns has no two
\* posts of one URL; it has a post of every discovered URL, and that post is
\* the first one discovered with the URL
C26_FirstOfEachUrl ==
    ((Called("NaverCrawler.Crawl") \/ Called("DanminCrawler.Crawl"))
        /\ ret[1].kind = "ok") =>
        LET out == ret[1].posts
            d   == Discovered
        IN  /\ \A i, j \in 1..Len(out) : i # j => out[i].url # out[j].url
            /\ {out[n].url : n \in 1..Len(out)} = {d[n].url : n \in 1..Len(d)}
            /\ \A i \in 1..Len(out) :
                  \E k \in 1..Len(d) :
                      /\ d[k] = out[i]
                      /\ \A m \in 1..(k - 1) : d[m].url # out[i].url

\* C26 witness: NaverCrawler.Crawl has returned a feed post whose URL a
\* related link of a page names too
C26_Witness ==
    /\ Called("NaverCrawler.Crawl") /\ ret[1].kind = "ok"
    /\ \E i \in 1..Len(ret[1].posts) :
          /\ ret[1].posts[i].author = "NaverD2"
          /\ \E k \in 1..Len(Discovered) :
                /\ Discovered[k].url = ret[1].posts[i].url
                /\ Discovered[k].author = "NaverD2-team"

-----------------------------------------------------------------------------
(* The order NaverCrawler.sortByDate leaves *)

\* the list is ordered by publishedAt, newest first
NewestFirst(list) ==
    \A i \in 1..(Len(list) - 1) : ~Before(list[i].publishedAt, list[i + 1].publishedAt)

\* the two lists hold the same posts, each as often
SamePosts(a, b) ==
    /\ Len(a) = Len(b)
    /\ \A x \in Range(a) \cup Range(b) : Count(x, a) = Count(x, b)

\* C27: sortByDate leaves a non-empty list as a permutation of what it was
\* given, ordered by publishedAt from newest to oldest; so the list
\* NaverCrawler.Crawl returns is ordered newest first
C27_SortedPermutation ==
    /\ Called("NaverCrawler.sortByDate") =>
          /\ ret[1].kind = "ok"
          /\ SamePosts(ret[1].posts, call.list)
          /\ NewestFirst(ret[1].posts)
    /\ (Called("NaverCrawler.Crawl") /\ ret[1].kind = "ok") => NewestFirst(ret[1].posts)

\* C27 witness: sortByDate was given three posts, oldest first, and has
\* returned
C27_Witness ==
    /\ Called("NaverCrawler.sortByDate")
    /\ Len(call.list) = 3
    /\ Before(call.list[1].publishedAt, call.list[2].publishedAt)
    /\ Before(call.list[2].publishedAt, call.list[3].publishedAt)

-----------------------------------------------------------------------------
(* The report of an empty list *)

\* the adapters returned a post and no post is at or after the cutoff
NoneSurvives ==
    /\ call.list # <<>>
    /\ \A i \in 1..Len(call.list) : call.list[i].publishedAt < CutoffInstant

\* C30: when the adapters return a post and no post survives the cutoff, the
\* run does not crash: the report is generated of the empty list
C30_EmptyReportCompletes ==
    ((Called("handler") \/ Called("main")) /\ NoneSurvives) =>
        /\ ret[1].kind # "panic"
        /\ ret[1].kind = "ok" => ret[1].posts = <<>>

\* the handler of cmd/main.go alone generates the report of the empty list
HandlerReportCompletes ==
    (Called("handler") /\ NoneSurvives) => ret[1] \in {Report(<<>>), Fatal}

-----------------------------------------------------------------------------
(* Termination of TossCrawler.Crawl *)

\* Crawl has returned: the posts, or the error of page 1
CrawlReturned == tpc \in {"returned", "failed"}

\* a step that closes the result channel: it was open, and every page
\* worker had ended
CloseStep ==
    pageClosed' # pageClosed =>
        /\ ~pageClosed /\ pageClosed'
        /\ \A p \in Pages : worker[p] = "done"

====
